---- MODULE Spec2Model ----
(***************************************************************************)
(* A model of pydocquery: query trees built from path accessors and        *)
(* operators (queries.py, queries_lib.py) and their evaluation against a   *)
(* document with the missing / negated-missing algebra                     *)
(* (queries_compilation.py).                                               *)
(*                                                                         *)
(* Python objects are records.  A document value carries its python type   *)
(* in field t; a Query node carries its class in field type, so that       *)
(* isinstance(x, Query) is "type" \in DOMAIN x.                            *)
(***************************************************************************)
EXTENDS Integers, Sequences, FiniteSets, TLC

VARIABLES
    meta,       \* the document the queries are run against (never written)
    q,          \* the query object the caller currently holds
    last_call,  \* the API function that ran last
    arg,        \* the path string of the last call when it is query_base
    result,     \* what the last call returned or raised
    compiled,   \* the evaluator compile_query gave the caller, and its runs
    accessors   \* the accessor objects the caller holds, oldest first

vars == <<meta, q, last_call, arg, result, compiled, accessors>>

(***************************************************************************)
(* Bounds of the model                                                     *)
(***************************************************************************)
MaxPathLen == 2     \* segments of a path built with __getattr__
MaxNot == 2         \* directly nested ~ operators
MaxLen == 3         \* items of the list handed to ql.any / ql.all
MaxRuns == 2        \* invocations of one compiled evaluator
MaxAccessors == 3   \* accessor objects held at once

(***************************************************************************)
(* Python values: SimplePrimitive, NestedPrimitive, Metadata               *)
(***************************************************************************)
None == [t |-> "NoneType"]
bool(b) == [t |-> "bool", b |-> b]
int(n) == [t |-> "int", n |-> n]
float(n) == [t |-> "float", n |-> n]
str(s) == [t |-> "str", s |-> s]
dict(f) == [t |-> "dict", items |-> f]
tuple(s) == [t |-> "tuple", elts |-> s]

True == bool(TRUE)
False == bool(FALSE)

\* The two singletons of queries.py
MISSING == [t |-> "_Missing"]
NEGATED_MISSING == [t |-> "_NegatedMissing"]

Keys == {"a", "b"}

EmptyItems == [k \in {} |-> None]

\* python truthiness, bool(v)
Truthy(v) ==
    CASE v.t = "NoneType" -> FALSE
      [] v.t = "bool" -> v.b
      [] v.t = "int" -> v.n # 0
      [] v.t = "float" -> v.n # 0
      [] v.t = "str" -> v.s # ""
      [] v.t = "dict" -> DOMAIN v.items # {}
      [] v.t = "tuple" -> Len(v.elts) > 0
      [] v.t = "_Missing" -> FALSE
      [] v.t = "_NegatedMissing" -> TRUE

\* The documents the model is run against: key "a" holds nothing, a leaf of
\* every primitive type (falsy and truthy) or a nested document; key "b"
\* holds nothing or a leaf.
Leaves == {None, False, True, int(0), int(1), float(1), str(""), str("hello")}
InnerLeaves == {None, int(1)}
InnerDocs == {dict(EmptyItems)} \cup {dict([k \in {"b"} |-> v]) : v \in InnerLeaves}
Absent == [t |-> "absent"]
MkDoc(x, y) ==
    LET present == {k \in Keys : (IF k = "a" THEN x ELSE y) # Absent}
    IN  dict([k \in present |-> IF k = "a" THEN x ELSE y])
Docs == {MkDoc(x, y) : x \in {Absent} \cup Leaves \cup InnerDocs,
                       y \in {Absent, True}}

(***************************************************************************)
(* What a call returns or raises.  A MissingQueryTargetError carries       *)
(* missingpath and its mutable truth_value; calls is the sequence of       *)
(* sub-evaluator invocations made so far, by position in the query tree.   *)
(***************************************************************************)
Returned(v, calls) ==
    [exc |-> "none", res |-> v, missingpath |-> <<>>, truth_value |-> FALSE,
     calls |-> calls]
Raised(name, calls) ==
    [exc |-> name, res |-> None, missingpath |-> <<>>, truth_value |-> FALSE,
     calls |-> calls]
\* Faulty variant of MissingQueryTargetError: one error object is kept by the
\* evaluator and raised again, with the truth value the last run left in it
MissingQueryTargetError_kept(missingpath) ==
    [exc |-> "MissingQueryTargetError", res |-> [t |-> "NoneType"],
     missingpath |-> missingpath,
     truth_value |-> (last_call = "invoke"
                      /\ result.res = [t |-> "_NegatedMissing"]),
     calls |-> <<>>]

\* MissingQueryTargetError.__init__: truth_value starts False
MissingQueryTargetError(missingpath) ==
    [exc |-> "MissingQueryTargetError", res |-> None,
     missingpath |-> missingpath, truth_value |-> FALSE, calls |-> <<>>]
\* MissingQueryTargetError.negate
negate(e) == [e EXCEPT !.truth_value = ~@]
\* MissingQueryTargetError.to_object
to_object(e) == IF e.truth_value THEN NEGATED_MISSING ELSE MISSING

NoResult == Raised("nothing", <<>>)
IsMissingErr(o) == o.exc = "MissingQueryTargetError"

(***************************************************************************)
(* Query nodes                                                             *)
(***************************************************************************)
IsQuery(x) == "type" \in DOMAIN x
DocElementQuery(path) == [type |-> "DocElementQuery", _path |-> path]
OneSidedOperation(operator, target) ==
    [type |-> "OneSidedOperation", operator |-> operator, target |-> target]
TwoSidedOperation(operator, lhs, rhs) ==
    [type |-> "TwoSidedOperation", operator |-> operator,
     left_hand_side |-> lhs, right_hand_side |-> rhs]
FunctionQuery(function, args) ==
    [type |-> "FunctionQuery", function |-> function, args |-> args]
IsDocElementQuery(x) == IsQuery(x) /\ x.type = "DocElementQuery"

\* DocElementAccessor.__getattr__: a new accessor, one segment longer
getattr(self, item) == DocElementQuery(self._path \o <<item>>)

\* Faulty variant of DocElementAccessor__getattr__: the path is extended in
\* place and self is returned
DocElementAccessor__getattr__in_place(heap, self, item) ==
    [heap |-> [heap EXCEPT ![self] = getattr(heap[self], item)],
     ret |-> self]
\* DocElementAccessor.__getattr__ on the objects the caller holds: self is
\* the position of the receiver; `query = type(self)()` is one more object,
\* the only one assigned to, and the one returned
DocElementAccessor__getattr__(heap, self, item) ==
    [heap |-> Append(heap, getattr(heap[self], item)),
     ret |-> Len(heap) + 1]

(***************************************************************************)
(* resolve_element: the loop over enumerate(qt._path); i counts from 1, so *)
(* python's qt._path[0:(i + 1)] is SubSeq(path, 1, i).  res[p] raises      *)
(* KeyError on a dict without the key and TypeError on every other value   *)
(* of a document (None, bool, int, float, str) since p is a str.           *)
(***************************************************************************)
\* Faulty variant of missing_prefix: the slice stops one segment early, [0:i]
missing_prefix_short(path, i) == SubSeq(path, 1, i - 1)

\* qt._path[0 : (i + 1)], line 374
missing_prefix(path, i) == SubSeq(path, 1, i)

Subscriptable(res, p) == res.t = "dict" /\ p \in DOMAIN res.items

RECURSIVE resolve_loop(_, _, _)
resolve_loop(path, res, i) ==
    IF i > Len(path) THEN Returned(res, <<>>)
    ELSE IF Subscriptable(res, path[i])
         THEN resolve_loop(path, res.items[path[i]], i + 1)
         ELSE MissingQueryTargetError(missing_prefix(path, i))

resolve_element(qt, doc) == resolve_loop(qt._path, doc, 1)

(***************************************************************************)
(* queries_compilation.py.  _compile returns a closure; the operators      *)
(* below give what that closure returns or raises when it is called on the *)
(* document m.  `at` is the position of the node in the query tree (<<>>   *)
(* the whole query, at \o <<i>> its i-th operand); every call of a         *)
(* compiled sub-evaluator is recorded in calls as a call and a ret event.  *)
(* For the trees built here compilation itself fails only at the top       *)
(* level (enforce_type).                                                    *)
(***************************************************************************)
Call(at) == [ev |-> "call", at |-> at]
Ret(at) == [ev |-> "ret", at |-> at]
Invoked(o, at) == [o EXCEPT !.calls = <<Call(at)>> \o @ \o <<Ret(at)>>]
After(calls, o) == [o EXCEPT !.calls = calls \o @]

IsNumber(v) == v.t \in {"bool", "int", "float"}
NumberOf(v) == IF v.t = "bool" THEN (IF v.b THEN 1 ELSE 0) ELSE v.n

\* python's unary - and + on a document value
neg(v) ==
    CASE v.t \in {"bool", "int"} -> Returned(int(0 - NumberOf(v)), <<>>)
      [] v.t = "float" -> Returned(float(0 - v.n), <<>>)
      [] OTHER -> Raised("TypeError", <<>>)
pos(v) ==
    CASE v.t \in {"bool", "int"} -> Returned(int(NumberOf(v)), <<>>)
      [] v.t = "float" -> Returned(v, <<>>)
      [] OTHER -> Raised("TypeError", <<>>)

\* python's builtin any() and all() on a document value
builtin_any(v) ==
    CASE v.t = "str" -> Returned(bool(v.s # ""), <<>>)
      [] v.t = "dict" -> Returned(bool(\E k \in DOMAIN v.items : k # ""), <<>>)
      [] v.t = "tuple" ->
            Returned(bool(\E i \in 1..Len(v.elts) : Truthy(v.elts[i])), <<>>)
      [] OTHER -> Raised("TypeError", <<>>)
\* Faulty variant of builtin_all: an iterable without elements gives False
builtin_all_empty_false(v) ==
    CASE v.t = "str" -> Returned(bool(v.s # ""), <<>>)
      [] v.t = "dict" ->
            Returned(bool(DOMAIN v.items # {}
                          /\ \A k \in DOMAIN v.items : k # ""), <<>>)
      [] v.t = "tuple" ->
            Returned(bool(Len(v.elts) > 0
                          /\ \A i \in 1..Len(v.elts) : Truthy(v.elts[i])), <<>>)
      [] OTHER -> Raised("TypeError", <<>>)

builtin_all(v) ==
    CASE v.t = "str" -> Returned(True, <<>>)
      [] v.t = "dict" -> Returned(bool(\A k \in DOMAIN v.items : k # ""), <<>>)
      [] v.t = "tuple" ->
            Returned(bool(\A i \in 1..Len(v.elts) : Truthy(v.elts[i])), <<>>)
      [] OTHER -> Raised("TypeError", <<>>)

(***************************************************************************)
(* Python's operators on the values of a document.  Each gives what the    *)
(* expression returns or raises; the numbers met here are not negative     *)
(* and every quotient is exact.                                            *)
(***************************************************************************)
\* the characters of the strings used in documents, patterns and operands
characters(s) ==
    CASE s = "" -> <<>>
      [] s = "hello" -> <<"h", "e", "l", "l", "o">>
      [] s = "hel" -> <<"h", "e", "l">>
      [] s = "lo" -> <<"l", "o">>
\* the code points of those characters, in order
Alphabet == <<"e", "h", "l", "o">>
ord(c) == CHOOSE i \in 1..Len(Alphabet) : Alphabet[i] = c

\* sub in s, for two sequences of characters
contains(s, sub) ==
    \E i \in 0..(Len(s) - Len(sub)) : SubSeq(s, i + 1, i + Len(sub)) = sub

\* s < t for two sequences of characters
RECURSIVE chars_lt(_, _)
chars_lt(s, t) ==
    IF t = <<>> THEN FALSE
    ELSE IF s = <<>> THEN TRUE
    ELSE IF Head(s) = Head(t) THEN chars_lt(Tail(s), Tail(t))
    ELSE ord(Head(s)) < ord(Head(t))

IsInt(v) == v.t \in {"bool", "int"}
\* the result of an arithmetic operator: float as soon as one side is
number(x, y, n) ==
    IF x.t = "float" \/ y.t = "float" THEN float(n) ELSE int(n)

\* x == y
RECURSIVE py_eq(_, _)
py_eq(x, y) ==
    IF IsNumber(x) /\ IsNumber(y) THEN NumberOf(x) = NumberOf(y)
    ELSE IF x.t # y.t THEN FALSE
    ELSE CASE x.t = "str" -> x.s = y.s
           [] x.t = "dict" ->
                 /\ DOMAIN x.items = DOMAIN y.items
                 /\ \A k \in DOMAIN x.items : py_eq(x.items[k], y.items[k])
           [] x.t = "tuple" ->
                 /\ Len(x.elts) = Len(y.elts)
                 /\ \A i \in 1..Len(x.elts) : py_eq(x.elts[i], y.elts[i])
           [] OTHER -> TRUE

\* x < y
py_lt(x, y) ==
    IF IsNumber(x) /\ IsNumber(y)
    THEN Returned(bool(NumberOf(x) < NumberOf(y)), <<>>)
    ELSE IF x.t = "str" /\ y.t = "str"
    THEN Returned(bool(chars_lt(characters(x.s), characters(y.s))), <<>>)
    ELSE Raised("TypeError", <<>>)
\* x <= y
py_le(x, y) ==
    IF py_lt(x, y).exc # "none" THEN py_lt(x, y)
    ELSE Returned(bool(py_lt(x, y).res.b \/ py_eq(x, y)), <<>>)

\* _Missing.__lt__, _Missing.__gt__
_Missing__lt__(self, other) == Returned(bool(other # MISSING), <<>>)
_Missing__gt__(self, other) == Returned(False, <<>>)
\* _NegatedMissing.__lt__
_NegatedMissing__lt__(self, other) ==
    Returned(bool(other # MISSING /\ other # NEGATED_MISSING), <<>>)
\* Faulty variant of _NegatedMissing__gt__: the body of _Missing.__gt__
_NegatedMissing__gt__never(self, other) == Returned(False, <<>>)
\* _NegatedMissing.__gt__
_NegatedMissing__gt__(self, other) == Returned(bool(other = MISSING), <<>>)

IsSentinel(x) == x \in {MISSING, NEGATED_MISSING}
\* python's x < y on the objects evaluate_query returns: the __lt__ of x, and
\* the __gt__ of y when x is a plain value, whose __lt__ does not know the
\* type of a singleton (NotImplemented)
object_lt(x, y) ==
    IF x = MISSING THEN _Missing__lt__(x, y)
    ELSE IF x = NEGATED_MISSING THEN _NegatedMissing__lt__(x, y)
    ELSE IF y = MISSING THEN _Missing__gt__(y, x)
    ELSE IF y = NEGATED_MISSING THEN _NegatedMissing__gt__(y, x)
    ELSE py_lt(x, y)
\* python's x > y: the __gt__ of x, and the __lt__ of y when x is a plain
\* value
object_gt(x, y) ==
    IF x = MISSING THEN _Missing__gt__(x, y)
    ELSE IF x = NEGATED_MISSING THEN _NegatedMissing__gt__(x, y)
    ELSE IF y = MISSING THEN _Missing__lt__(y, x)
    ELSE IF y = NEGATED_MISSING THEN _NegatedMissing__lt__(y, x)
    ELSE py_lt(y, x)

\* s * n for a string
RECURSIVE repeat(_, _)
repeat(s, n) == IF n <= 0 THEN "" ELSE s \o repeat(s, n - 1)

RECURSIVE power(_, _)
power(x, n) == IF n = 0 THEN 1 ELSE x * power(x, n - 1)

\* bitwise and, or, xor of two naturals: f gives the bit of two bits
RECURSIVE bitwise(_, _, _)
bitwise(f, x, y) ==
    IF x = 0 /\ y = 0 THEN 0
    ELSE f[x % 2][y % 2] + 2 * bitwise(f, x \div 2, y \div 2)
BitAnd == [a \in 0..1 |-> [b \in 0..1 |-> IF a = 1 /\ b = 1 THEN 1 ELSE 0]]
BitOr == [a \in 0..1 |-> [b \in 0..1 |-> IF a = 1 \/ b = 1 THEN 1 ELSE 0]]
BitXor == [a \in 0..1 |-> [b \in 0..1 |-> IF a # b THEN 1 ELSE 0]]

\* s % y for a string s without conversion specifiers: y must be a mapping,
\* or a tuple without elements
str_format(x, y) ==
    IF y.t = "dict" \/ (y.t = "tuple" /\ Len(y.elts) = 0)
    THEN Returned(x, <<>>)
    ELSE Raised("TypeError", <<>>)

\* x op y for the operators of TwoSidedOperator other than AND and OR
py_binop(op, x, y) ==
    LET nums == IsNumber(x) /\ IsNumber(y)
        ints == IsInt(x) /\ IsInt(y)
        a == NumberOf(x)
        b == NumberOf(y)
        TypeError == Raised("TypeError", <<>>)
        ZeroDivisionError == Raised("ZeroDivisionError", <<>>)
    IN  CASE op = "LT" -> py_lt(x, y)
          [] op = "LE" -> py_le(x, y)
          [] op = "EQ" -> Returned(bool(py_eq(x, y)), <<>>)
          [] op = "NE" -> Returned(bool(~py_eq(x, y)), <<>>)
          [] op = "GT" -> py_lt(y, x)
          [] op = "GE" -> py_le(y, x)
          [] op = "ADD" ->
                IF nums THEN Returned(number(x, y, a + b), <<>>)
                ELSE IF x.t = "str" /\ y.t = "str"
                THEN Returned(str(x.s \o y.s), <<>>)
                ELSE IF x.t = "tuple" /\ y.t = "tuple"
                THEN Returned(tuple(x.elts \o y.elts), <<>>)
                ELSE TypeError
          [] op = "SUB" ->
                IF nums THEN Returned(number(x, y, a - b), <<>>) ELSE TypeError
          [] op = "MUL" ->
                IF nums THEN Returned(number(x, y, a * b), <<>>)
                ELSE IF x.t = "str" /\ IsInt(y)
                THEN Returned(str(repeat(x.s, b)), <<>>)
                ELSE IF IsInt(x) /\ y.t = "str"
                THEN Returned(str(repeat(y.s, a)), <<>>)
                ELSE TypeError
          [] op = "MATMUL" -> TypeError
          [] op = "TRUEDIV" ->
                IF ~nums THEN TypeError
                ELSE IF b = 0 THEN ZeroDivisionError
                ELSE Returned(float(a \div b), <<>>)
          [] op = "FLOORDIV" ->
                IF ~nums THEN TypeError
                ELSE IF b = 0 THEN ZeroDivisionError
                ELSE Returned(number(x, y, a \div b), <<>>)
          [] op = "MOD" ->
                IF x.t = "str" THEN str_format(x, y)
                ELSE IF ~nums THEN TypeError
                ELSE IF b = 0 THEN ZeroDivisionError
                ELSE Returned(number(x, y, a % b), <<>>)
          [] op = "POW" ->
                IF nums THEN Returned(number(x, y, power(a, b)), <<>>)
                ELSE TypeError
          [] op = "LSHIFT" ->
                IF ints THEN Returned(int(a * power(2, b)), <<>>) ELSE TypeError
          [] op = "RSHIFT" ->
                IF ints THEN Returned(int(a \div power(2, b)), <<>>) ELSE TypeError

\* ~x, the bitwise complement
py_invert(x) ==
    IF IsInt(x) THEN Returned(int(0 - (NumberOf(x) + 1)), <<>>)
    ELSE Raised("TypeError", <<>>)

\* x & y, x | y, x ^ y
py_bitop(kf, x, y) ==
    LET f == CASE kf = "BINAND" -> BitAnd
               [] kf = "BINOR" -> BitOr
               [] kf = "BINXOR" -> BitXor
        n == bitwise(f, NumberOf(x), NumberOf(y))
    IN  IF x.t = "bool" /\ y.t = "bool" THEN Returned(bool(n = 1), <<>>)
        ELSE IF IsInt(x) /\ IsInt(y) THEN Returned(int(n), <<>>)
        ELSE IF kf = "BINOR" /\ x.t = "dict" /\ y.t = "dict"
        THEN Returned(dict([k \in DOMAIN x.items \cup DOMAIN y.items |->
                              IF k \in DOMAIN y.items THEN y.items[k]
                              ELSE x.items[k]]), <<>>)
        ELSE Raised("TypeError", <<>>)

\* x in container
py_in(x, container) ==
    CASE container.t = "str" ->
            IF x.t = "str"
            THEN Returned(bool(contains(characters(container.s), characters(x.s))), <<>>)
            ELSE Raised("TypeError", <<>>)
      [] container.t = "dict" ->
            IF x.t = "dict" THEN Raised("TypeError", <<>>)
            ELSE Returned(bool(x.t = "str" /\ x.s \in DOMAIN container.items),
                          <<>>)
      [] container.t = "tuple" ->
            Returned(bool(\E i \in 1..Len(container.elts) :
                              py_eq(container.elts[i], x)), <<>>)
      [] OTHER -> Raised("TypeError", <<>>)

\* re.compile(regex).search(res) is not None, for a regex of plain characters
re_search(regex, res) ==
    IF res.t = "str"
    THEN Returned(bool(contains(characters(res.s), characters(regex))), <<>>)
    ELSE Raised("TypeError", <<>>)

IsSortingQuery(x) == "is_ascending" \in DOMAIN x

\* Faulty variant of rejects: no object is refused
rejects_never(qq, enforce_type) == FALSE

\* lines 70-72 of _compile: raise TypeError(q)
rejects(qq, enforce_type) == ~IsQuery(qq) /\ enforce_type

RECURSIVE _compile(_, _, _, _, _)
RECURSIVE compile_one_sided_operator(_, _, _, _)
RECURSIVE compile_two_sided_operator(_, _, _, _, _)
RECURSIVE compile_known_function(_, _, _, _)
RECURSIVE any_loop(_, _, _, _, _, _)
RECURSIVE all_loop(_, _, _, _, _, _)

\* Faulty variant of catching_eval: the wrapper does not catch
catching_eval_uncaught(o) == o

\* the catching wrapper of _compile, lines 84-88
catching_eval(o) ==
    IF IsMissingErr(o) THEN Returned(to_object(o), o.calls) ELSE o

_compile(qq, enforce_type, catch_missing_exc, m, at) ==
    IF ~IsQuery(qq)
    THEN IF rejects(qq, enforce_type)
         THEN Raised("TypeError", <<>>)
         ELSE Invoked(Returned(qq, <<>>), at)
    ELSE IF catch_missing_exc
    THEN catching_eval(_compile(qq, enforce_type, FALSE, m, at))
    ELSE IF qq.type = "OneSidedOperation"
    THEN Invoked(compile_one_sided_operator(qq.operator, qq.target, m, at), at)
    ELSE IF qq.type = "TwoSidedOperation"
    THEN Invoked(compile_two_sided_operator(qq.operator, qq.left_hand_side,
                                            qq.right_hand_side, m, at), at)
    ELSE IF qq.type = "FunctionQuery"
    THEN Invoked(compile_known_function(qq.function, qq.args, m, at), at)
    ELSE IF qq.type = "DocElementQuery"
    THEN Invoked(resolve_element(qq, m), at)
    ELSE Raised("NotImplementedError", <<>>)

\* Faulty variant of not_branch: the error is re-raised without e.negate()
not_branch_no_negate(t) ==
    IF t.exc # "none" THEN t
    ELSE Returned(bool(~Truthy(t.res)), t.calls)

\* the NOT branch of compile_one_sided_operator, lines 122-133
not_branch(t) ==
    IF IsMissingErr(t) THEN negate(t)
    ELSE IF t.exc # "none" THEN t
    ELSE Returned(bool(~Truthy(t.res)), t.calls)

compile_one_sided_operator(op, target, m, at) ==
    LET t == _compile(target, FALSE, FALSE, m, at \o <<1>>)
    IN  CASE op = "NEG" -> IF t.exc # "none" THEN t ELSE After(t.calls, neg(t.res))
          [] op = "POS" -> IF t.exc # "none" THEN t ELSE After(t.calls, pos(t.res))
          [] op = "NOT" -> not_branch(t)
          [] OTHER -> Raised("NotImplementedError", <<>>)

\* Faulty variant of and_branch: a missing left side is re-raised whatever its
\* truth value
and_branch_always_raise(l, r) ==
    IF l.exc = "none"
    THEN IF ~Truthy(l.res) THEN l ELSE After(l.calls, r)
    ELSE l

\* Faulty variant of and_branch: a missing left operand counts as a plain
\* False
and_branch_missing_is_false(l, r) ==
    IF l.exc = "none"
    THEN IF ~Truthy(l.res) THEN l ELSE After(l.calls, r)
    ELSE IF IsMissingErr(l)
    THEN IF ~l.truth_value THEN Returned(False, l.calls)
         ELSE After(l.calls, r)
    ELSE l

\* the AND branch of compile_two_sided_operator, lines 188-197; r is what
\* right(meta) gives, and is only evaluated where the code calls it
and_branch(l, r) ==
    IF l.exc = "none"
    THEN IF ~Truthy(l.res) THEN l ELSE After(l.calls, r)
    ELSE IF IsMissingErr(l)
    THEN IF ~l.truth_value THEN l ELSE After(l.calls, r)
    ELSE l

\* python's `v or right(meta)`, after the calls made so far
py_or(v, calls, r) ==
    IF Truthy(v) THEN Returned(v, calls) ELSE After(calls, r)

\* Faulty variant of or_branch: a missing left side is never absorbed
or_branch_always_raise(l, r) ==
    IF l.exc = "none"
    THEN IF Truthy(l.res) THEN l ELSE After(l.calls, r)
    ELSE l

\* Faulty variant of or_branch: right(meta) is called before left_res is tested
or_branch_eager(l, r) ==
    IF IsMissingErr(l)
    THEN IF l.truth_value THEN l ELSE After(l.calls, r)
    ELSE IF l.exc = "none"
    THEN IF Truthy(l.res) /\ r.exc = "none"
         THEN Returned(l.res, l.calls \o r.calls)
         ELSE After(l.calls, r)
    ELSE l

\* the OR branch of compile_two_sided_operator, lines 205-218
or_branch(l, r) ==
    IF IsMissingErr(l)
    THEN IF l.truth_value THEN l
         ELSE py_or(bool(l.truth_value), l.calls, r)
    ELSE IF l.exc = "none"
    THEN py_or(l.res, l.calls, r)
    ELSE l

\* the operators of TwoSidedOperator evaluated as left(meta) op right(meta)
StrictOperators ==
    {"LT", "LE", "EQ", "NE", "GT", "GE", "ADD", "SUB", "MUL", "MATMUL",
     "TRUEDIV", "FLOORDIV", "MOD", "POW", "LSHIFT", "RSHIFT"}

\* Faulty variant of then: right(meta) is called before left(meta)
then_right_first(l, r) ==
    IF r.exc # "none" THEN r
    ELSE IF l.exc # "none" THEN After(r.calls, l)
    ELSE [r EXCEPT !.calls = @ \o l.calls]

\* Faulty variant of then: an error of the left operand is swallowed
then_drop_left(l, r) == After(l.calls, r)

\* left(meta) then right(meta) in one expression: the first error raised, or
\* the value of r after the calls of both
then(l, r) == IF l.exc # "none" THEN l ELSE After(l.calls, r)

\* left(meta) op right(meta), lines 149-180
strict_branch(op, l, r) ==
    IF then(l, r).exc # "none" THEN then(l, r)
    ELSE After(then(l, r).calls, py_binop(op, l.res, r.res))

compile_two_sided_operator(op, lhs, rhs, m, at) ==
    LET l == _compile(lhs, FALSE, FALSE, m, at \o <<1>>)
        r == _compile(rhs, FALSE, FALSE, m, at \o <<2>>)
    IN  CASE op = "AND" -> and_branch(l, r)
          [] op = "OR" -> or_branch(l, r)
          [] op \in StrictOperators -> strict_branch(op, l, r)
          [] OTHER -> Raised("NotImplementedError", <<>>)

\* Faulty variant of empty_list_eval: python's vacuous any(()) and all(())
empty_list_eval_vacuous(kf) == Returned(bool(kf = "ALL"), <<>>)

\* the evaluator of ANY and ALL for len(target) == 0, lines 326-328 and
\* 374-376: lambda meta: False
empty_list_eval(kf) == Returned(False, <<>>)

\* Faulty variant of any_final_item: a missing final item is raised whatever came
\* before it
any_final_item_always_raise(o, all_missing) ==
    IF o.exc = "none" THEN Returned(bool(Truthy(o.res)), o.calls)
    ELSE IF IsMissingErr(o)
    THEN IF o.truth_value THEN Returned(True, o.calls) ELSE o
    ELSE o

\* the final item of the list form of ANY, lines 348-359
any_final_item(o, all_missing) ==
    IF o.exc = "none" THEN Returned(bool(Truthy(o.res)), o.calls)
    ELSE IF IsMissingErr(o)
    THEN IF o.truth_value THEN Returned(True, o.calls)
         ELSE IF all_missing THEN o
         ELSE Returned(False, o.calls)
    ELSE o

\* Faulty variant of all_final_item: a missing final item counts as True after a
\* real item, whatever its truth value
all_final_item_missing_true(o, all_negated_missing) ==
    IF o.exc = "none" THEN Returned(bool(Truthy(o.res)), o.calls)
    ELSE IF IsMissingErr(o)
    THEN IF all_negated_missing THEN o ELSE Returned(True, o.calls)
    ELSE o

\* Faulty variant of all_final_item: a negated missing final item always counts as
\* True
all_final_item_never_raise(o, all_negated_missing) ==
    IF o.exc = "none" THEN Returned(bool(Truthy(o.res)), o.calls)
    ELSE IF IsMissingErr(o)
    THEN IF ~o.truth_value THEN o ELSE Returned(True, o.calls)
    ELSE o

\* the final item of the list form of ALL, lines 397-408
all_final_item(o, all_negated_missing) ==
    IF o.exc = "none" THEN Returned(bool(Truthy(o.res)), o.calls)
    ELSE IF IsMissingErr(o)
    THEN IF ~o.truth_value THEN o
         ELSE IF all_negated_missing THEN o
         ELSE Returned(True, o.calls)
    ELSE o

\* Faulty variant of any_loop: no early stopping, every item is evaluated
any_loop_eager(cargs, m, at, i, all_missing, calls) ==
    LET o == After(calls, _compile(cargs[i], FALSE, FALSE, m, at \o <<i>>))
    IN  IF i < Len(cargs)
        THEN any_loop(cargs, m, at, i + 1, all_missing /\ IsMissingErr(o),
                      o.calls)
        ELSE any_final_item(o, all_missing)

\* list form of ANY, lines 334-359: i runs over cargs[:-1], then the final item
any_loop(cargs, m, at, i, all_missing, calls) ==
    LET o == After(calls, _compile(cargs[i], FALSE, FALSE, m, at \o <<i>>))
    IN  IF i < Len(cargs)
        THEN IF o.exc = "none"
             THEN IF Truthy(o.res) THEN Returned(True, o.calls)
                  ELSE any_loop(cargs, m, at, i + 1, FALSE, o.calls)
             ELSE IF IsMissingErr(o)
             THEN IF o.truth_value THEN Returned(True, o.calls)
                  ELSE any_loop(cargs, m, at, i + 1, all_missing, o.calls)
             ELSE o
        ELSE any_final_item(o, all_missing)

\* list form of ALL, lines 382-408
all_loop(cargs, m, at, i, all_negated_missing, calls) ==
    LET o == After(calls, _compile(cargs[i], FALSE, FALSE, m, at \o <<i>>))
    IN  IF i < Len(cargs)
        THEN IF o.exc = "none"
             THEN IF ~Truthy(o.res) THEN Returned(False, o.calls)
                  ELSE all_loop(cargs, m, at, i + 1, FALSE, o.calls)
             ELSE IF IsMissingErr(o)
             THEN IF ~o.truth_value THEN o
                  ELSE all_loop(cargs, m, at, i + 1, all_negated_missing, o.calls)
             ELSE o
        ELSE all_final_item(o, all_negated_missing)

\* Faulty variant of exists_eval: the error of a missing target is not caught
exists_eval_uncaught(t) ==
    IF t.exc = "none" THEN Returned(True, t.calls) ELSE t

\* the EXISTS evaluator, lines 234-239
exists_eval(t) ==
    IF t.exc = "none" THEN Returned(True, t.calls)
    ELSE IF IsMissingErr(t) THEN Returned(False, t.calls)
    ELSE t

\* Faulty variant of is_in_eval: the container is evaluated first, in the
\* order the two are compiled
is_in_eval_container_first(c_item, c_container) ==
    IF then(c_container, c_item).exc # "none" THEN then(c_container, c_item)
    ELSE After(then(c_container, c_item).calls,
               py_in(c_item.res, c_container.res))

\* c_item(meta) in c_container(meta), line 311
is_in_eval(c_item, c_container) ==
    IF then(c_item, c_container).exc # "none" THEN then(c_item, c_container)
    ELSE After(then(c_item, c_container).calls,
               py_in(c_item.res, c_container.res))

\* Faulty variant of matches_eval: the TypeError of the search is not caught
matches_eval_uncaught(regex, t) ==
    IF t.exc # "none" THEN t ELSE After(t.calls, re_search(regex, t.res))

\* the MATCHES evaluator, lines 295-301
matches_eval(regex, t) ==
    IF t.exc # "none" THEN t
    ELSE IF re_search(regex, t.res).exc = "TypeError"
    THEN Returned(False, t.calls)
    ELSE After(t.calls, re_search(regex, t.res))

compile_known_function(kf, args, m, at) ==
    LET target == args[1]
        ctarget == _compile(target, FALSE, FALSE, m, at \o <<1>>)
        cright == _compile(args[2], FALSE, FALSE, m, at \o <<2>>)
    IN  CASE kf = "EXISTS" -> exists_eval(ctarget)
          [] kf = "IS_NONE" ->
                IF ctarget.exc # "none" THEN ctarget
                ELSE Returned(bool(ctarget.res = None), ctarget.calls)
          [] kf = "BINNOT" ->
                IF ctarget.exc # "none" THEN ctarget
                ELSE After(ctarget.calls, py_invert(ctarget.res))
          [] kf \in {"BINAND", "BINOR", "BINXOR"} ->
                IF then(ctarget, cright).exc # "none" THEN then(ctarget, cright)
                ELSE After(then(ctarget, cright).calls,
                           py_bitop(kf, ctarget.res, cright.res))
          [] kf = "MATCHES" -> matches_eval(args[2].s, ctarget)
          [] kf = "IS_IN" -> is_in_eval(ctarget, cright)
          [] kf = "ANY" ->
                IF IsQuery(target)
                THEN IF ctarget.exc # "none" THEN ctarget
                     ELSE After(ctarget.calls, builtin_any(ctarget.res))
                ELSE IF Len(target.elts) = 0 THEN empty_list_eval(kf)
                ELSE any_loop(target.elts, m, at, 1, TRUE, <<>>)
          [] kf = "ALL" ->
                IF IsQuery(target)
                THEN IF ctarget.exc # "none" THEN ctarget
                     ELSE After(ctarget.calls, builtin_all(ctarget.res))
                ELSE IF Len(target.elts) = 0 THEN empty_list_eval(kf)
                ELSE all_loop(target.elts, m, at, 1, TRUE, <<>>)
          [] OTHER -> Raised("NotImplementedError", <<>>)

\* the closure compile_query returns
Evaluator(qq) == [t |-> "function", query |-> qq]

\* compile_query(q): the evaluator, or the TypeError raised while compiling
compile_query(qq) ==
    LET x == IF IsSortingQuery(qq) THEN qq.query ELSE qq
    IN  IF rejects(x, TRUE) THEN Raised("TypeError", <<>>)
        ELSE Returned(Evaluator(x), <<>>)

\* f(meta) for an evaluator f that compile_query returned
invoke(f, m) == _compile(f.query, TRUE, TRUE, m, <<>>)

\* compile_query(q)(metadata)
evaluate_query(qq, metadata) ==
    IF compile_query(qq).exc # "none" THEN compile_query(qq)
    ELSE invoke(compile_query(qq).res, metadata)

(***************************************************************************)
(* The caller: build a query, then run it                                  *)
(***************************************************************************)
NoArg == [given |-> FALSE, chars |-> <<>>]
StrArg(chars) == [given |-> TRUE, chars |-> chars]

\* str.split(sep) on a string given as its characters
RECURSIVE split_from(_, _, _, _)
split_from(chars, sep, i, cur) ==
    IF i > Len(chars) THEN <<cur>>
    ELSE IF chars[i] = sep
         THEN <<cur>> \o split_from(chars, sep, i + 1, "")
         ELSE split_from(chars, sep, i + 1, cur \o chars[i])
split(chars, sep) == split_from(chars, sep, 1, "")

\* Query.__getitem__, inherited by DocElementQuery: DocElementAccessor
\* defines no __getitem__ (it is commented out)
Query__getitem__(self, item) == Raised("InvalidQueryUsageError", <<>>)

\* Query.__bool__ and Query.__hash__
Query__bool__(self) == Raised("InvalidQueryUsageError", <<>>)
Query__hash__(self) == Raised("InvalidQueryUsageError", <<>>)

\* Faulty variant of Query__xor__: the node the commented-out line would build
Query__xor__builds(self, rhs) ==
    Returned(TwoSidedOperation("XOR", self, rhs), <<>>)

\* Query.__xor__ and Query.__rxor__
Query__xor__(self, rhs) == Raised("InvalidQueryUsageError", <<>>)
Query__rxor__(self, rhs) == Raised("InvalidQueryUsageError", <<>>)

\* python's bool(x), hash(x) and x ^ y on a query or a raw object
py_bool(x) ==
    IF IsQuery(x) THEN Query__bool__(x) ELSE Returned(bool(Truthy(x)), <<>>)
\* hash values are kept symbolic: what was hashed, with equal numbers made
\* alike (hash(1) == hash(1.0) == hash(True)) and hash(-1) being -2; two
\* different strings or tuples are taken to hash differently
hash_number(n) == <<"number", IF n = -1 THEN -2 ELSE n>>
hash_tuple(hs) == <<"tuple", hs>>
hash_type(cls) == <<"type", cls>>
hash_enum(member) == <<"str", member>>
RECURSIVE hash_object(_)
hash_object(x) ==
    CASE IsNumber(x) -> hash_number(NumberOf(x))
      [] x.t = "str" -> <<"str", x.s>>
      [] x.t = "tuple" ->
            hash_tuple([i \in 1..Len(x.elts) |-> hash_object(x.elts[i])])
      [] OTHER -> <<x.t>>
RECURSIVE IsHashable(_)
IsHashable(x) ==
    /\ x.t # "dict"
    /\ x.t = "tuple" => \A i \in 1..Len(x.elts) : IsHashable(x.elts[i])
py_hash(x) ==
    IF IsQuery(x) THEN Query__hash__(x)
    ELSE IF ~IsHashable(x) THEN Raised("TypeError", <<>>)
    ELSE Returned(hash_object(x), <<>>)
py_xor(x, y) ==
    IF IsQuery(x) THEN Query__xor__(x, y)
    ELSE IF IsQuery(y) THEN Query__rxor__(y, x)
    ELSE py_bitop("BINXOR", x, y)

\* x < y: Query.__lt__, or Query.__gt__ of y when only y is a query
lt(x, y) ==
    IF IsQuery(x) THEN Returned(TwoSidedOperation("LT", x, y), <<>>)
    ELSE IF IsQuery(y) THEN Returned(TwoSidedOperation("GT", y, x), <<>>)
    ELSE py_lt(x, y)

\* python's `x and y`: y is looked at only when bool(x) is True
py_and(x, y) ==
    IF py_bool(x).exc # "none" THEN py_bool(x)
    ELSE IF py_bool(x).res.b THEN y ELSE Returned(x, <<>>)

\* python's `x < y < z`, that is `(x < y) and (y < z)`
chained_lt(x, y, z) ==
    IF lt(x, y).exc # "none" THEN lt(x, y)
    ELSE py_and(lt(x, y).res, lt(y, z))

\* the values of the members of OneSidedOperator and TwoSidedOperator
OneSidedOperatorValue(op) ==
    CASE op = "NEG" -> "-" [] op = "POS" -> "+" [] op = "NOT" -> "~"
TwoSidedOperatorValue(op) ==
    CASE op = "LT" -> "<" [] op = "LE" -> "<=" [] op = "EQ" -> "=="
      [] op = "NE" -> "!=" [] op = "GT" -> ">" [] op = "GE" -> ">="
      [] op = "ADD" -> "+" [] op = "SUB" -> "-" [] op = "MUL" -> "*"
      [] op = "MATMUL" -> "@" [] op = "TRUEDIV" -> "/"
      [] op = "FLOORDIV" -> "//" [] op = "MOD" -> "%" [] op = "POW" -> "**"
      [] op = "LSHIFT" -> "<<" [] op = "RSHIFT" -> ">>"
      [] op = "AND" -> "and" [] op = "OR" -> "or"

\* sep.join(strs)
RECURSIVE join(_, _)
join(strs, sep) ==
    IF strs = <<>> THEN ""
    ELSE IF Len(strs) = 1 THEN strs[1]
    ELSE strs[1] \o sep \o join(Tail(strs), sep)

\* the keys of a dict in the order it lists them
KeyOrder(f) == IF DOMAIN f = {} THEN <<>>
               ELSE SelectSeq(<<"a", "b">>, LAMBDA k : k \in DOMAIN f)

\* Faulty variant of maybe_parenthesis: no parentheses around an operation
RECURSIVE maybe_parenthesis_bare(_)
\* repr(x) and str(x) of a raw object or a query, Query.__str__,
\* Query.__repr__ and maybe_parenthesis
RECURSIVE py_repr(_)
RECURSIVE py_str(_)
RECURSIVE Query__str__(_)
RECURSIVE Query__repr__(_)
RECURSIVE maybe_parenthesis(_)
py_repr(x) ==
    IF IsQuery(x) THEN Query__repr__(x)
    ELSE CASE x.t = "NoneType" -> "None"
           [] x.t = "bool" -> IF x.b THEN "True" ELSE "False"
           [] x.t = "int" -> ToString(x.n)
           [] x.t = "float" -> ToString(x.n) \o ".0"
           [] x.t = "str" -> "'" \o x.s \o "'"
           [] x.t = "dict" ->
                 "{" \o join([i \in 1..Len(KeyOrder(x.items)) |->
                              "'" \o KeyOrder(x.items)[i] \o "': "
                              \o py_repr(x.items[KeyOrder(x.items)[i]])],
                            ", ") \o "}"
           [] x.t = "tuple" ->
                 "(" \o join([i \in 1..Len(x.elts) |-> py_repr(x.elts[i])],
                            ", ")
                 \o (IF Len(x.elts) = 1 THEN "," ELSE "") \o ")"
           [] x.t = "_Missing" -> "se_model_manager.MISSING"
           [] x.t = "_NegatedMissing" -> "se_model_manager.NEGATED_MISSING"
py_str(x) ==
    IF IsQuery(x) THEN Query__str__(x)
    ELSE IF x.t = "str" THEN x.s
    ELSE py_repr(x)

maybe_parenthesis_bare(x) ==
    IF IsQuery(x) THEN py_str(x) ELSE py_repr(x)

maybe_parenthesis(x) ==
    IF IsQuery(x) /\ x.type \in {"OneSidedOperation", "TwoSidedOperation"}
    THEN "(" \o py_str(x) \o ")"
    ELSE IF IsQuery(x) THEN py_str(x)
    ELSE py_repr(x)

\* the __str__ of DocElementQuery, OneSidedOperation, TwoSidedOperation and
\* FunctionQuery
Query__str__(x) ==
    CASE x.type = "DocElementQuery" ->
            join(<<"<metadata_root>">> \o x._path, ".")
      [] x.type = "OneSidedOperation" ->
            OneSidedOperatorValue(x.operator) \o " "
            \o maybe_parenthesis(x.target)
      [] x.type = "TwoSidedOperation" ->
            maybe_parenthesis(x.left_hand_side) \o " "
            \o TwoSidedOperatorValue(x.operator) \o " "
            \o maybe_parenthesis(x.right_hand_side)
      [] x.type = "FunctionQuery" ->
            x.function \o "("
            \o join([i \in 1..Len(x.args) |-> py_str(x.args[i])], ", ")
            \o ")"

\* the __repr__ of the same four classes; an enum member shows as
\* <Class.NAME: 'value'> under repr and as Class.NAME under str
Query__repr__(x) ==
    CASE x.type = "DocElementQuery" ->
            "DocElementQuery(_path=" \o Query__str__(x) \o ")"
      [] x.type = "OneSidedOperation" ->
            "<OneSidedOperator." \o x.operator \o ": '"
            \o OneSidedOperatorValue(x.operator) \o "'>("
            \o py_repr(x.target) \o ")"
      [] x.type = "TwoSidedOperation" ->
            "<TwoSidedOperator." \o x.operator \o ": '"
            \o TwoSidedOperatorValue(x.operator) \o "'>("
            \o py_repr(x.left_hand_side) \o ", "
            \o py_repr(x.right_hand_side) \o ")"
      [] x.type = "FunctionQuery" ->
            "FunctionQuery(function=KnownFunction." \o x.function
            \o ", args=" \o py_repr(tuple(x.args)) \o ")"

\* hash((h1, ..., hn)) once every hi is computed, or the first error
hash_of_outcomes(os) ==
    IF \E i \in 1..Len(os) : os[i].exc # "none"
    THEN os[CHOOSE i \in 1..Len(os) :
                /\ os[i].exc # "none"
                /\ \A j \in 1..(i - 1) : os[j].exc = "none"]
    ELSE Returned(hash_tuple([i \in 1..Len(os) |-> os[i].res]), <<>>)

\* hash_query(q)
RECURSIVE hash_query(_)
hash_query(x) ==
    IF ~IsQuery(x) THEN py_hash(x)
    ELSE CASE x.type = "OneSidedOperation" ->
                hash_of_outcomes(<<Returned(hash_type(x.type), <<>>),
                                   Returned(hash_enum(x.operator), <<>>),
                                   hash_query(x.target)>>)
           [] x.type = "TwoSidedOperation" ->
                hash_of_outcomes(<<Returned(hash_type(x.type), <<>>),
                                   Returned(hash_enum(x.operator), <<>>),
                                   hash_query(x.left_hand_side),
                                   hash_query(x.right_hand_side)>>)
           [] x.type = "DocElementQuery" ->
                Returned(hash_tuple(<<hash_type(x.type),
                    hash_tuple([i \in 1..Len(x._path) |->
                                   <<"str", x._path[i]>>])>>), <<>>)
           [] OTHER -> Raised("NotImplementedError", <<>>)

\* is_same_query(q1, q2)
is_same_query(q1, q2) ==
    IF hash_query(q1).exc # "none" THEN hash_query(q1)
    ELSE IF hash_query(q2).exc # "none" THEN hash_query(q2)
    ELSE Returned(bool(hash_query(q1).res = hash_query(q2).res), <<>>)

\* query_base: res = res[item] for each item of path.split(".")
RECURSIVE query_base_loop(_, _, _)
query_base_loop(res, items, i) ==
    IF i > Len(items) THEN Returned(res, <<>>)
    ELSE LET r == Query__getitem__(res, items[i])
         IN  IF r.exc # "none" THEN r
             ELSE query_base_loop(r.res, items, i + 1)

query_base(path) ==
    IF ~path.given THEN Returned(DocElementQuery(<<>>), <<>>)
    ELSE query_base_loop(DocElementQuery(<<>>), split(path.chars, "."), 1)

\* ql.exists
exists(target) ==
    IF ~IsDocElementQuery(target) THEN Raised("TypeError", <<>>)
    ELSE Returned(FunctionQuery("EXISTS", <<target>>), <<>>)

\* isinstance(x, Iterable) for the objects of the model
IsIterable(x) == ~IsQuery(x) /\ x.t \in {"tuple", "str", "dict"}

\* ql.any and ql.all on a tuple of queries or on a query
ql_any(target) ==
    IF ~IsIterable(target) /\ ~IsQuery(target) THEN Raised("TypeError", <<>>)
    ELSE Returned(FunctionQuery("ANY", <<target>>), <<>>)
ql_all(target) ==
    IF ~IsIterable(target) /\ ~IsQuery(target) THEN Raised("TypeError", <<>>)
    ELSE Returned(FunctionQuery("ALL", <<target>>), <<>>)

\* ql.is_none, ql.binnot
is_none(target) ==
    IF ~IsQuery(target) THEN Raised("TypeError", <<>>)
    ELSE Returned(FunctionQuery("IS_NONE", <<target>>), <<>>)
binnot(target) ==
    IF ~IsQuery(target) THEN Raised("TypeError", <<>>)
    ELSE Returned(FunctionQuery("BINNOT", <<target>>), <<>>)

\* Faulty variant of binand: the node is built without looking at the operands
binand_unchecked(left, right) ==
    Returned(FunctionQuery("BINAND", <<left, right>>), <<>>)

\* ql.binand, ql.binor, ql.binxor
binand(left, right) ==
    IF ~IsQuery(left) /\ ~IsQuery(right) THEN Raised("TypeError", <<>>)
    ELSE Returned(FunctionQuery("BINAND", <<left, right>>), <<>>)
binor(left, right) ==
    IF ~IsQuery(left) /\ ~IsQuery(right) THEN Raised("TypeError", <<>>)
    ELSE Returned(FunctionQuery("BINOR", <<left, right>>), <<>>)
binxor(left, right) ==
    IF ~IsQuery(left) /\ ~IsQuery(right) THEN Raised("TypeError", <<>>)
    ELSE Returned(FunctionQuery("BINXOR", <<left, right>>), <<>>)

\* ql.matches: regex a str (no re.Pattern is handed in here), flags an int
matches(target, regex, flags) ==
    IF ~IsQuery(target) THEN Raised("TypeError", <<>>)
    ELSE IF IsQuery(regex) \/ regex.t # "str" THEN Raised("TypeError", <<>>)
    ELSE IF IsQuery(flags) \/ ~IsInt(flags) THEN Raised("TypeError", <<>>)
    ELSE Returned(FunctionQuery("MATCHES", <<target, regex, flags>>), <<>>)

\* ql.is_in
is_in(item, collection) ==
    IF ~IsQuery(collection) /\ ~IsQuery(item) THEN Raised("TypeError", <<>>)
    ELSE Returned(FunctionQuery("IS_IN", <<item, collection>>), <<>>)

(***************************************************************************)
(* The inputs of the caller                                                *)
(***************************************************************************)
\* the path strings handed to query_base
PathArgs == {NoArg, StrArg(<<"a">>), StrArg(<<"a", ".", "b">>), StrArg(<<>>)}

\* raw python objects used as operands
Consts == {True, False}

RECURSIVE Nots(_, _)
Nots(x, n) == IF n = 0 THEN x ELSE OneSidedOperation("NOT", Nots(x, n - 1))

\* operands handed to & and |: constants, and accessors with or without ~
Operands ==
    Consts \cup {Nots(DocElementQuery(<<k>>), n) : k \in Keys, n \in 0..1}

\* items of the tuples handed to ql.any and ql.all
ListItems ==
    Consts \cup {Nots(DocElementQuery(<<"a">>), n) : n \in 0..1}
RECURSIVE SeqsOfLen(_, _)
SeqsOfLen(S, n) ==
    IF n = 0 THEN {<<>>}
    ELSE {<<x>> \o s : x \in S, s \in SeqsOfLen(S, n - 1)}
Lists == UNION {SeqsOfLen(ListItems, n) : n \in 0..MaxLen}

\* number of ~ directly on top of the query
RECURSIVE NotDepth(_)
NotDepth(x) ==
    IF IsQuery(x) /\ x.type = "OneSidedOperation" /\ x.operator = "NOT"
    THEN 1 + NotDepth(x.target) ELSE 0
\* the query under those ~
RECURSIVE Unnegated(_)
Unnegated(x) ==
    IF IsQuery(x) /\ x.type = "OneSidedOperation" /\ x.operator = "NOT"
    THEN Unnegated(x.target) ELSE x
\* an accessor, possibly under ~: what the caller combines with an operator
IsSimple(x) == IsDocElementQuery(Unnegated(x))
IsRoot(x) == x = DocElementQuery(<<>>)

\* the caller holds no compiled evaluator
NoEvaluator == [f |-> None, runs |-> 0]

\* the accessors left to a caller that keeps x only
Kept(x) == IF IsDocElementQuery(x) THEN <<x>> ELSE <<>>

\* an operator or accessor gave the caller the new query x
Built(x) ==
    /\ q' = x
    /\ last_call' = "build"
    /\ result' = NoResult
    /\ arg' = NoArg
    /\ compiled' = NoEvaluator
    /\ accessors' = Kept(x)
    /\ UNCHANGED meta

\* a library function gave the caller a new query, or raised
Constructed(o) ==
    IF o.exc = "none" THEN Built(o.res)
    ELSE /\ result' = o
         /\ last_call' = "build"
         /\ arg' = NoArg
         /\ compiled' = NoEvaluator
         /\ accessors' = Kept(q)
         /\ UNCHANGED <<meta, q>>

\* a function of queries_lib gave the caller a new query, or raised
ConstructedBy(function, o) ==
    IF o.exc = "none" THEN Built(o.res)
    ELSE /\ result' = o
         /\ last_call' = function
         /\ arg' = NoArg
         /\ compiled' = NoEvaluator
         /\ accessors' = Kept(q)
         /\ UNCHANGED <<meta, q>>

\* raw python objects the caller may hold instead of a query
RawObjects == Consts \cup {int(1)}
\* the queries the strict operators and the library functions are applied
\* to: a top-level element, or its negation
Terms == {Nots(DocElementQuery(<<k>>), n) : k \in Keys, n \in 0..1}
\* what a library function is applied to: one of those, or a raw object
IsTarget(x) == x \in Terms \cup RawObjects
\* the other operand of an operator or of a two-argument library function
OtherOperands == {int(1), DocElementQuery(<<"b">>)}
\* arguments of ql.matches
Regexes == {str("hel"), str(""), int(1)}
Flags == {int(0), None}
\* arguments of ql.is_in
Containers == {str("hello"), tuple(<<int(1), str("")>>), DocElementQuery(<<"b">>)}
Items == {str("lo"), int(1), DocElementQuery(<<"b">>)}

Init ==
    /\ meta \in Docs
    /\ q = DocElementQuery(<<>>)
    /\ last_call = "query_base"
    /\ arg = NoArg
    /\ result = query_base(NoArg)
    /\ compiled = NoEvaluator
    /\ accessors = <<q>>

\* query_base(path)
QueryBase ==
    /\ IsDocElementQuery(q)
    /\ \E path \in PathArgs :
          /\ arg' = path
          /\ result' = query_base(path)
          /\ q' = IF result'.exc = "none" THEN result'.res ELSE q
    /\ last_call' = "query_base"
    /\ compiled' = NoEvaluator
    /\ accessors' = Kept(q')
    /\ UNCHANGED meta

\* model.a, model.a.b: DocElementAccessor.__getattr__
\* the receiver is any accessor the caller still holds
GetAttr ==
    /\ IsDocElementQuery(q)
    /\ Len(accessors) < MaxAccessors
    /\ \E self \in 1..Len(accessors), item \in Keys :
          /\ Len(accessors[self]._path) < MaxPathLen
          /\ LET o == DocElementAccessor__getattr__(accessors, self, item)
             IN  /\ accessors' = o.heap
                 /\ q' = o.heap[o.ret]
          /\ last_call' = "build"
          /\ result' = NoResult
          /\ arg' = NoArg
          /\ compiled' = NoEvaluator
          /\ UNCHANGED meta

\* ~q: Query.__invert__
Invert ==
    /\ IsQuery(q)
    /\ NotDepth(q) < MaxNot
    /\ Built(OneSidedOperation("NOT", q))

\* -q and +q: Query.__neg__, Query.__pos__
Neg ==
    /\ IsSimple(q)
    /\ Built(OneSidedOperation("NEG", q))
Pos ==
    /\ IsSimple(q)
    /\ Built(OneSidedOperation("POS", q))

\* q & rhs and q | rhs: Query.__and__, Query.__or__
And ==
    /\ IsSimple(q)
    /\ \E rhs \in Operands : Built(TwoSidedOperation("AND", q, rhs))
Or ==
    /\ IsSimple(q)
    /\ \E rhs \in Operands : Built(TwoSidedOperation("OR", q, rhs))

\* lhs & q and lhs | q with lhs a raw object: Query.__rand__, Query.__ror__
RAnd ==
    /\ IsSimple(q)
    /\ \E lhs \in Consts : Built(TwoSidedOperation("AND", lhs, q))
ROr ==
    /\ IsSimple(q)
    /\ \E lhs \in Consts : Built(TwoSidedOperation("OR", lhs, q))

\* ql.exists(q)
Exists ==
    /\ IsQuery(q) \/ q \in RawObjects
    /\ ConstructedBy("exists", exists(q))

\* ql.any((q1, q2, ...)) and ql.all((q1, q2, ...)), the items built from the
\* root accessor the caller holds
AnyOf ==
    /\ IsRoot(q)
    /\ \E items \in Lists : Constructed(ql_any(tuple(items)))
AllOf ==
    /\ IsRoot(q)
    /\ \E items \in Lists : Constructed(ql_all(tuple(items)))

\* ql.any(q) and ql.all(q): a single query whose value is iterated
AnyOfQuery ==
    /\ IsSimple(q) \/ q \in RawObjects
    /\ ConstructedBy("any", ql_any(q))
AllOfQuery ==
    /\ IsSimple(q) \/ q \in RawObjects
    /\ ConstructedBy("all", ql_all(q))

\* the caller takes a raw python object where a query is expected
Raw ==
    /\ IsRoot(q)
    /\ \E x \in RawObjects : Built(x)

\* q < rhs, q == rhs, ...: Query.__lt__ to Query.__ge__
Compare ==
    /\ q \in Terms
    /\ \E op \in {"LT", "LE", "EQ", "NE", "GT", "GE"}, rhs \in OtherOperands :
          Built(TwoSidedOperation(op, q, rhs))

\* q + rhs, q - rhs, ...: Query.__add__ to Query.__rshift__
Arith ==
    /\ q \in Terms
    /\ \E op \in StrictOperators \ {"LT", "LE", "EQ", "NE", "GT", "GE"},
          rhs \in OtherOperands :
          Built(TwoSidedOperation(op, q, rhs))

\* lhs + q, lhs - q, ... with lhs a raw object: Query.__radd__ to
\* Query.__rrshift__
RArith ==
    /\ q \in Terms
    /\ \E op \in StrictOperators \ {"LT", "LE", "EQ", "NE", "GT", "GE"} :
          Built(TwoSidedOperation(op, int(1), q))

\* ql.is_none(q), ql.binnot(q)
IsNone ==
    /\ IsTarget(q)
    /\ ConstructedBy("is_none", is_none(q))
BinNot ==
    /\ IsTarget(q)
    /\ ConstructedBy("binnot", binnot(q))

\* ql.binand, ql.binor, ql.binxor with q on either side
BinAnd ==
    /\ IsTarget(q)
    /\ \E other \in OtherOperands :
          \/ ConstructedBy("binand", binand(q, other))
          \/ ConstructedBy("binand", binand(other, q))
BinOr ==
    /\ IsTarget(q)
    /\ \E other \in OtherOperands :
          \/ ConstructedBy("binor", binor(q, other))
          \/ ConstructedBy("binor", binor(other, q))
BinXor ==
    /\ IsTarget(q)
    /\ \E other \in OtherOperands :
          \/ ConstructedBy("binxor", binxor(q, other))
          \/ ConstructedBy("binxor", binxor(other, q))

\* ql.matches(q, regex, flags)
Matches ==
    /\ IsTarget(q)
    /\ \E regex \in Regexes, flags \in Flags :
          ConstructedBy("matches", matches(q, regex, flags))

\* ql.is_in(q, container) and ql.is_in(item, q)
IsIn ==
    /\ IsTarget(q)
    /\ \/ \E container \in Containers :
             ConstructedBy("is_in", is_in(q, container))
       \/ \E item \in Items : ConstructedBy("is_in", is_in(item, q))

\* the caller used q where python wants a plain object; nothing is built
Used(how, o) ==
    /\ last_call' = how
    /\ result' = o
    /\ arg' = NoArg
    /\ compiled' = NoEvaluator
    /\ accessors' = Kept(q)
    /\ UNCHANGED <<meta, q>>

\* the queries those uses are tried on: one of each class of node
IsSample(x) ==
    \/ x \in Terms
    \/ x \in {TwoSidedOperation("LT", t, int(1)) : t \in Terms}
    \/ x \in {FunctionQuery("EXISTS", <<DocElementQuery(<<k>>)>>) : k \in Keys}

\* bool(q), as in `if q:`
Bool ==
    /\ IsSample(q)
    /\ Used("bool", py_bool(q))
\* hash(q), as in `{q: 1}`
Hash ==
    /\ IsSample(q)
    /\ Used("hash", py_hash(q))
\* q and rhs
AndKeyword ==
    /\ IsSample(q)
    /\ \E rhs \in OtherOperands : Used("and", py_and(q, Returned(rhs, <<>>)))
\* q < x < z and x < q < z
Chained ==
    /\ IsSample(q)
    /\ \E x \in OtherOperands, z \in OtherOperands :
          \/ Used("chained", chained_lt(q, x, z))
          \/ Used("chained", chained_lt(x, q, z))
\* q ^ rhs and lhs ^ q
Xor ==
    /\ IsSample(q)
    /\ \E rhs \in OtherOperands : Used("xor", py_xor(q, rhs))
RXor ==
    /\ IsSample(q)
    /\ \E lhs \in OtherOperands : Used("rxor", py_xor(lhs, q))

\* resolve_element(q, meta), called directly on an accessor
ResolveElement ==
    /\ IsDocElementQuery(q)
    /\ last_call' = "resolve_element"
    /\ result' = resolve_element(q, meta)
    /\ arg' = NoArg
    /\ compiled' = NoEvaluator
    /\ accessors' = Kept(q)
    /\ UNCHANGED <<meta, q>>

\* evaluate_query(q, meta)
Evaluate ==
    /\ last_call' = "evaluate_query"
    /\ result' = evaluate_query(q, meta)
    /\ arg' = NoArg
    /\ compiled' = NoEvaluator
    /\ accessors' = Kept(q)
    /\ UNCHANGED <<meta, q>>

\* f = compile_query(q)
CompileQuery ==
    /\ last_call' = "compile_query"
    /\ result' = compile_query(q)
    /\ compiled' = IF result'.exc = "none" THEN [f |-> result'.res, runs |-> 0]
                   ELSE NoEvaluator
    /\ arg' = NoArg
    /\ accessors' = Kept(q)
    /\ UNCHANGED <<meta, q>>

\* f(meta), once more
Invoke ==
    /\ compiled # NoEvaluator
    /\ compiled.runs < MaxRuns
    /\ last_call' = "invoke"
    /\ result' = invoke(compiled.f, meta)
    /\ compiled' = [compiled EXCEPT !.runs = @ + 1]
    /\ arg' = NoArg
    /\ accessors' = Kept(q)
    /\ UNCHANGED <<meta, q>>

\* the last call was evaluate_query(q, meta)
Evaluated == last_call = "evaluate_query"

\* the two objects handed to a comparison of results
Objects(x, y) == [x |-> x, y |-> y]

\* the caller compared or tested objects that evaluate_query returned
Compared(how, x, y, o) ==
    /\ last_call' = how
    /\ result' = o
    /\ arg' = Objects(x, y)
    /\ compiled' = NoEvaluator
    /\ accessors' = Kept(q)
    /\ UNCHANGED <<meta, q>>

\* what the result of a query is compared with when documents are sorted by
\* it: the result itself and the two singletons
SortKeys == {MISSING, NEGATED_MISSING, result.res}

\* x < y, x > y and bool(x) on results of evaluate_query
Less ==
    /\ Evaluated
    /\ q \in Terms
    /\ result.exc = "none"
    /\ \E x \in SortKeys, y \in SortKeys :
          Compared("object_lt", x, y, object_lt(x, y))
Greater ==
    /\ Evaluated
    /\ q \in Terms
    /\ result.exc = "none"
    /\ \E x \in SortKeys, y \in SortKeys :
          Compared("object_gt", x, y, object_gt(x, y))
TruthValue ==
    /\ Evaluated
    /\ q \in Terms
    /\ result.exc = "none"
    /\ \E x \in SortKeys : Compared("object_bool", x, x, py_bool(x))

\* what is_same_query is tried on besides q: queries one operator, one
\* path or one constant away from those q is drawn from
SameProbes ==
    {DocElementQuery(<<"a">>),
     OneSidedOperation("NEG", DocElementQuery(<<"a">>)),
     TwoSidedOperation("LT", DocElementQuery(<<"a">>), float(1)),
     TwoSidedOperation("GT", DocElementQuery(<<"a">>), int(1)),
     TwoSidedOperation("EQ", DocElementQuery(<<"a">>), dict(EmptyItems)),
     FunctionQuery("EXISTS", <<DocElementQuery(<<"b">>)>>)}

\* is_same_query(q1, q2), each of q1 and q2 being q or another query; a
\* query compared with itself stands for the same query built twice
IsSameQuery ==
    /\ last_call = "build"
    /\ IsSample(q)
    /\ \E q1 \in {q} \cup SameProbes, q2 \in {q} \cup SameProbes :
          Compared("is_same_query", q1, q2, is_same_query(q1, q2))

\* the trees str() and repr() are tried on: q, q next to every kind of
\* operand on either side of an operator, and q in the list of a function
RenderProbes == SameProbes \cup {None, True, int(1), str("hello")}
Rendered ==
    {q}
    \cup {TwoSidedOperation("AND", q, p) : p \in RenderProbes}
    \cup {TwoSidedOperation("EQ", p, q) : p \in RenderProbes}
    \cup {OneSidedOperation("NEG", q),
          FunctionQuery("ANY", <<tuple(<<q, str("hello")>>)>>),
          FunctionQuery("MATCHES", <<q, str("hel"), int(0)>>)}

\* str(x) and repr(x)
Str ==
    /\ last_call = "build"
    /\ IsSample(q)
    /\ \E x \in Rendered : Compared("str", x, x, Returned(str(py_str(x)), <<>>))
Repr ==
    /\ last_call = "build"
    /\ IsSample(q)
    /\ \E x \in Rendered :
          Compared("repr", x, x, Returned(str(py_repr(x)), <<>>))

Next ==
    \/ QueryBase
    \/ GetAttr
    \/ Invert
    \/ Neg
    \/ Pos
    \/ And
    \/ Or
    \/ RAnd
    \/ ROr
    \/ Exists
    \/ AnyOf
    \/ AllOf
    \/ AnyOfQuery
    \/ AllOfQuery
    \/ Raw
    \/ Compare
    \/ Arith
    \/ RArith
    \/ IsNone
    \/ BinNot
    \/ BinAnd
    \/ BinOr
    \/ BinXor
    \/ Matches
    \/ IsIn
    \/ Bool
    \/ Hash
    \/ AndKeyword
    \/ Chained
    \/ Xor
    \/ RXor
    \/ ResolveElement
    \/ Evaluate
    \/ CompileQuery
    \/ Invoke
    \/ Less
    \/ Greater
    \/ TruthValue
    \/ IsSameQuery
    \/ Str
    \/ Repr

Spec == Init /\ [][Next]_vars

(***************************************************************************)
(* Properties.  A sub-expression is evaluated the way the compiled parent  *)
(* calls it: without the catching wrapper.                                 *)
(***************************************************************************)
Sub(x) == _compile(x, FALSE, FALSE, meta, <<>>)

IsValue(o) == o.exc = "none"
IsMissing(o, flag) == IsMissingErr(o) /\ o.truth_value = flag
IsTruthy(o) == IsValue(o) /\ Truthy(o.res)
IsFalsy(o) == IsValue(o) /\ ~Truthy(o.res)

\* what a caller sees: the exception raised, or the object returned
Seen(o) == [exc |-> o.exc, res |-> o.res]
Sees(v) == Seen(result) = [exc |-> "none", res |-> v]
\* an outcome without its record of calls
Sans(o) == [o EXCEPT !.calls = <<>>]
\* what the top level shows of an operand's value or error
TopOf(o) ==
    IF IsMissingErr(o)
    THEN [exc |-> "none",
          res |-> IF o.truth_value THEN NEGATED_MISSING ELSE MISSING]
    ELSE Seen(o)

IsOp(x, cls, op) == IsQuery(x) /\ x.type = cls /\ x.operator = op
IsFn(x, fn) == IsQuery(x) /\ x.type = "FunctionQuery" /\ x.function = fn
IsListFn(x, fn) == IsFn(x, fn) /\ ~IsQuery(x.args[1])

\* the document, read from the root: the value under the first n segments
\* of p, and whether those n segments are all there
RECURSIVE ValueAt(_, _, _)
ValueAt(d, p, n) == IF n = 0 THEN d ELSE ValueAt(d, p, n - 1).items[p[n]]
RECURSIVE Has(_, _, _)
Has(d, p, n) ==
    \/ n = 0
    \/ /\ Has(d, p, n - 1)
       /\ ValueAt(d, p, n - 1).t = "dict"
       /\ p[n] \in DOMAIN ValueAt(d, p, n - 1).items
Resolves(d, p) == Has(d, p, Len(p))
FirstUnresolved(d, p) ==
    CHOOSE n \in 1..Len(p) : ~Has(d, p, n) /\ \A k \in 0..(n - 1) : Has(d, p, k)

\* C1: top-level evaluation never lets a MissingQueryTargetError escape: an
\* error with truth value False comes back as MISSING, one with truth value
\* True as NEGATED_MISSING.
C1_TopLevelCatchesMissing ==
    Evaluated =>
        /\ result.exc # "MissingQueryTargetError"
        /\ IsMissing(Sub(q), FALSE) => Sees(MISSING)
        /\ IsMissing(Sub(q), TRUE) => Sees(NEGATED_MISSING)

C1_Witness ==
    /\ Evaluated
    /\ IsMissing(Sub(q), TRUE)
    /\ IsOp(q, "TwoSidedOperation", "OR")
    /\ Sees(NEGATED_MISSING)

\* C2: resolve_element goes left to right: it returns the exact nested value
\* when every segment is present (the whole document for the empty path) and
\* otherwise raises MissingQueryTargetError with the path cut just after the
\* first segment that is absent or applied to a value that is no map.
C2_ResolveLeftToRight ==
    last_call = "resolve_element" =>
        LET p == q._path
        IN  /\ p = <<>> => Sans(result) = Returned(meta, <<>>)
            /\ Resolves(meta, p) =>
                   Sans(result) = Returned(ValueAt(meta, p, Len(p)), <<>>)
            /\ ~Resolves(meta, p) =>
                   /\ IsMissing(result, FALSE)
                   /\ result.missingpath = SubSeq(p, 1, FirstUnresolved(meta, p))

C2_Witness ==
    /\ last_call = "resolve_element"
    /\ q._path = <<"a", "b">>
    /\ "a" \in DOMAIN meta.items
    /\ meta.items["a"].t = "str"
    /\ IsMissingErr(result)
    /\ result.missingpath = <<"a", "b">>

\* C3: NOT of an operand that evaluates normally is the strict boolean
\* negation of its truthiness; NOT of an operand that raises
\* MissingQueryTargetError toggles the truth value of that error and re-raises
\* it, so n NOTs over a missing path give NEGATED_MISSING for odd n and MISSING
\* for even n.
C3_NotSemantics ==
    (Evaluated /\ IsOp(q, "OneSidedOperation", "NOT")) =>
        LET t == Sub(q.target)
        IN  /\ IsValue(t) => Sees(bool(~Truthy(t.res)))
            /\ IsMissingErr(t) =>
                   /\ Sans(Sub(q)) = Sans([t EXCEPT !.truth_value = ~@])
                   /\ Sees(IF t.truth_value THEN MISSING ELSE NEGATED_MISSING)
            /\ (IsDocElementQuery(Unnegated(q))
                    /\ ~Resolves(meta, Unnegated(q)._path)) =>
                   Sees(IF NotDepth(q) % 2 = 1 THEN NEGATED_MISSING
                        ELSE MISSING)

C3_Witness ==
    /\ Evaluated
    /\ NotDepth(q) = 2
    /\ IsDocElementQuery(Unnegated(q))
    /\ ~Resolves(meta, Unnegated(q)._path)
    /\ Sees(MISSING)

\* C4: AND gives left's own value when left is falsy, re-raises left's error
\* when left is missing with truth value False, and otherwise (left truthy, or
\* missing with truth value True) gives exactly right's value or error.
C4_AndResult ==
    (Evaluated /\ IsOp(q, "TwoSidedOperation", "AND")) =>
        LET l == Sub(q.left_hand_side)
            r == Sub(q.right_hand_side)
        IN  /\ IsFalsy(l) => Sees(l.res)
            /\ IsMissing(l, FALSE) =>
                   /\ Sees(MISSING)
                   /\ Sans(Sub(q)) = Sans(l)
            /\ (IsTruthy(l) \/ IsMissing(l, TRUE)) =>
                   /\ Seen(result) = TopOf(r)
                   /\ Sans(Sub(q)) = Sans(r)

C4_Witness ==
    /\ Evaluated
    /\ IsOp(q, "TwoSidedOperation", "AND")
    /\ IsMissing(Sub(q.left_hand_side), TRUE)
    /\ q.right_hand_side = True
    /\ Sees(True)

\* C5: OR gives left's own value when left is truthy, re-raises left's error
\* when left is missing with truth value True, and otherwise (left falsy, or
\* missing with truth value False) gives exactly right's value or error.
C5_OrResult ==
    (Evaluated /\ IsOp(q, "TwoSidedOperation", "OR")) =>
        LET l == Sub(q.left_hand_side)
            r == Sub(q.right_hand_side)
        IN  /\ IsTruthy(l) => Sees(l.res)
            /\ IsMissing(l, TRUE) =>
                   /\ Sees(NEGATED_MISSING)
                   /\ Sans(Sub(q)) = Sans(l)
            /\ (IsFalsy(l) \/ IsMissing(l, FALSE)) =>
                   /\ Seen(result) = TopOf(r)
                   /\ Sans(Sub(q)) = Sans(r)

C5_Witness ==
    /\ Evaluated
    /\ IsOp(q, "TwoSidedOperation", "OR")
    /\ IsMissing(Sub(q.left_hand_side), FALSE)
    /\ q.right_hand_side = False
    /\ Sees(False)

\* how often, and where, the evaluator at a position was called
CallsOf(at) == {i \in 1..Len(result.calls) : result.calls[i] = Call(at)}
RetsOf(at) == {i \in 1..Len(result.calls) : result.calls[i] = Ret(at)}
SkipsRight ==
    LET l == Sub(q.left_hand_side)
    IN  \/ q.operator = "AND" /\ (IsFalsy(l) \/ IsMissing(l, FALSE))
        \/ q.operator = "OR" /\ (IsTruthy(l) \/ IsMissing(l, TRUE))

\* C6: the right operand of AND is never called when left is falsy or missing
\* with truth value False, nor the right operand of OR when left is truthy or
\* missing with truth value True; in every other case right is called exactly
\* once, after left has returned or raised.
C6_ShortCircuit ==
    (Evaluated /\ IsQuery(q) /\ q.type = "TwoSidedOperation"
        /\ q.operator \in {"AND", "OR"}) =>
        /\ Cardinality(CallsOf(<<1>>)) = 1
        /\ Cardinality(RetsOf(<<1>>)) = 1
        /\ SkipsRight => CallsOf(<<2>>) = {}
        /\ ~SkipsRight =>
               /\ Cardinality(CallsOf(<<2>>)) = 1
               /\ \A i \in CallsOf(<<2>>) : \A j \in RetsOf(<<1>>) : j < i

C6_Witness ==
    /\ Evaluated
    /\ q = TwoSidedOperation("AND", False, DocElementQuery(<<"a">>))
    /\ ~Resolves(meta, <<"a">>)
    /\ CallsOf(<<2>>) = {}
    /\ Sees(False)

\* C7: EXISTS is total: it is boolean True iff the path resolves (a null value
\* included) and boolean False otherwise, never missing; under NOTs the result
\* stays a plain boolean.
C7_ExistsTotal ==
    (Evaluated /\ IsFn(Unnegated(q), "EXISTS")) =>
        LET p == Unnegated(q).args[1]._path
            odd == NotDepth(q) % 2 = 1
        IN  /\ IsValue(Sub(Unnegated(q)))
            /\ Sees(bool(Resolves(meta, p) # odd))

C7_Witness ==
    /\ Evaluated
    /\ NotDepth(q) = 1
    /\ IsFn(Unnegated(q), "EXISTS")
    /\ ~Resolves(meta, Unnegated(q).args[1]._path)
    /\ Sees(True)

C7_WitnessNull ==
    /\ Evaluated
    /\ IsFn(q, "EXISTS")
    /\ Resolves(meta, q.args[1]._path)
    /\ ValueAt(meta, q.args[1]._path, Len(q.args[1]._path)) = None
    /\ Sees(True)

\* C8: list-form ANY over a non-empty list is True iff some item is truthy or
\* negated missing, MISSING iff every item is missing with truth value False,
\* and False otherwise; it is never NEGATED_MISSING.
C8_AnyList ==
    (Evaluated /\ IsListFn(q, "ANY") /\ Len(q.args[1].elts) > 0) =>
        LET elts == q.args[1].elts
            o(i) == Sub(elts[i])
            some == \E i \in 1..Len(elts) : IsTruthy(o(i)) \/ IsMissing(o(i), TRUE)
            none == \A i \in 1..Len(elts) : IsMissing(o(i), FALSE)
        IN  /\ some => Sees(True)
            /\ none => Sees(MISSING)
            /\ (~some /\ ~none) => Sees(False)
            /\ ~Sees(NEGATED_MISSING)

C8_Witness ==
    /\ Evaluated
    /\ q = ql_any(tuple(<<DocElementQuery(<<"a">>), False,
                          DocElementQuery(<<"a">>)>>)).res
    /\ ~Resolves(meta, <<"a">>)
    /\ Sees(False)

\* C9: list-form ALL over a non-empty list, left to right: the first item
\* that is a real falsy value gives False and the first that is missing with
\* truth value False gives MISSING, whichever comes first; without such an
\* item the result is NEGATED_MISSING when every item is negated missing and
\* True otherwise.
C9_AllList ==
    (Evaluated /\ IsListFn(q, "ALL") /\ Len(q.args[1].elts) > 0) =>
        LET elts == q.args[1].elts
            o(i) == Sub(elts[i])
            Stops(i) == IsFalsy(o(i)) \/ IsMissing(o(i), FALSE)
            stops == {i \in 1..Len(elts) : Stops(i)}
            first == CHOOSE i \in stops : \A j \in stops : i <= j
        IN  IF stops # {}
            THEN Sees(IF IsFalsy(o(first)) THEN False ELSE MISSING)
            ELSE IF \A i \in 1..Len(elts) : IsMissing(o(i), TRUE)
                 THEN Sees(NEGATED_MISSING)
                 ELSE Sees(True)

C9_Witness ==
    /\ Evaluated
    /\ q = ql_all(tuple(<<Nots(DocElementQuery(<<"a">>), 1),
                          Nots(DocElementQuery(<<"a">>), 1)>>)).res
    /\ ~Resolves(meta, <<"a">>)
    /\ Sees(NEGATED_MISSING)

\* C10: query_base("a.b") builds the accessor with segments (a, b), the same
\* as navigating a then b from the root.
C10_QueryBaseDotted ==
    (last_call = "query_base" /\ arg = StrArg(<<"a", ".", "b">>)) =>
        /\ result.exc = "none"
        /\ q = getattr(getattr(DocElementQuery(<<>>), "a"), "b")
        /\ resolve_element(q, dict([k \in {"a"} |->
                 dict([j \in {"b"} |-> int(1)])])).res = int(1)

\* C11: list-form ANY and list-form ALL over an empty list of sub-expressions
\* give boolean False whatever the document, ALL included.
C11_EmptyListFalse ==
    (Evaluated /\ (IsListFn(q, "ANY") \/ IsListFn(q, "ALL"))
        /\ Len(q.args[1].elts) = 0) =>
        /\ Sees(False)
        /\ \A d \in Docs : Seen(evaluate_query(q, d)) = Seen(Returned(False, <<>>))

C11_Witness ==
    /\ Evaluated
    /\ q = ql_all(tuple(<<>>)).res
    /\ DOMAIN meta.items = Keys
    /\ Sees(False)

\* the python objects whose iteration yields nothing
IsEmptyIterable(v) ==
    \/ v.t = "str" /\ v.s = ""
    \/ v.t = "dict" /\ DOMAIN v.items = {}
    \/ v.t = "tuple" /\ Len(v.elts) = 0

\* C12 as stated: ALL over nothing is False in both forms, the list form over
\* an empty list and the single-query form whose target evaluates to an empty
\* iterable.
C12_AllEmptyFalseBothForms ==
    (Evaluated /\ IsFn(q, "ALL")) =>
        /\ (IsListFn(q, "ALL") /\ Len(q.args[1].elts) = 0) => Sees(False)
        /\ (IsQuery(q.args[1]) /\ IsValue(Sub(q.args[1]))
                /\ IsEmptyIterable(Sub(q.args[1]).res)) => Sees(False)

\* C12 amended: ALL over an empty list of sub-expressions is False, while the
\* single-query form whose target evaluates to an empty iterable is True, as
\* python's all() is.
C12_AllEmptyListFalseSingleTrue ==
    (Evaluated /\ IsFn(q, "ALL")) =>
        /\ (IsListFn(q, "ALL") /\ Len(q.args[1].elts) = 0) => Sees(False)
        /\ (IsQuery(q.args[1]) /\ IsValue(Sub(q.args[1]))
                /\ IsEmptyIterable(Sub(q.args[1]).res)) => Sees(True)

C12_Witness ==
    /\ Evaluated
    /\ q = ql_all(DocElementQuery(<<"a">>)).res
    /\ Resolves(meta, <<"a">>)
    /\ meta.items["a"] = dict(EmptyItems)
    /\ Sees(True)

\* C13: list-form ALL over a list with a missing item gives a missing result
\* only when every entry is missing; in every other case the result is a
\* boolean.
C13_AllListMissingOnlyWhenAllMissing ==
    (Evaluated /\ IsListFn(q, "ALL") /\ Len(q.args[1].elts) > 0) =>
        LET elts == q.args[1].elts
            o(i) == Sub(elts[i])
        IN  ((\E i \in 1..Len(elts) : IsMissingErr(o(i)))
                /\ ~(\A i \in 1..Len(elts) : IsMissingErr(o(i)))) =>
                /\ IsValue(result)
                /\ result.res.t = "bool"

\* C14: list-form any and all always return a strict boolean, whatever the
\* items evaluate to, missing items included.
C14_ListFormsStrictBoolean ==
    (Evaluated /\ (IsListFn(q, "ANY") \/ IsListFn(q, "ALL"))) =>
        /\ IsValue(result)
        /\ result.res.t = "bool"

\* the operands a node evaluates, in the order it evaluates them, for the
\* nodes that do nothing special about a missing operand; <<>> for the others
EvaluatedOperands(x) ==
    IF ~IsQuery(x) THEN <<>>
    ELSE IF x.type = "OneSidedOperation" /\ x.operator \in {"NEG", "POS"}
    THEN <<x.target>>
    ELSE IF x.type = "TwoSidedOperation" /\ x.operator \in StrictOperators
    THEN <<x.left_hand_side, x.right_hand_side>>
    ELSE IF x.type = "FunctionQuery"
    THEN CASE x.function \in {"IS_NONE", "BINNOT", "MATCHES"} -> <<x.args[1]>>
           [] x.function \in {"BINAND", "BINOR", "BINXOR", "IS_IN"} ->
                 <<x.args[1], x.args[2]>>
           [] x.function \in {"ANY", "ALL"} /\ IsQuery(x.args[1]) ->
                 <<x.args[1]>>
           [] OTHER -> <<>>
    ELSE <<>>

\* C15: a node other than NOT, AND, OR, EXISTS and list-form ANY/ALL re-raises
\* the MissingQueryTargetError of the first operand that raises one, with its
\* path and truth value unchanged; at top level that is MISSING for truth
\* value False and NEGATED_MISSING for truth value True.
C15_MissingPropagatesUnchanged ==
    Evaluated =>
        LET ops == EvaluatedOperands(q)
        IN  \A i \in 1..Len(ops) :
                (IsMissingErr(Sub(ops[i]))
                    /\ \A j \in 1..(i - 1) : IsValue(Sub(ops[j]))) =>
                    /\ Sub(q).exc = "MissingQueryTargetError"
                    /\ Sub(q).missingpath = Sub(ops[i]).missingpath
                    /\ Sub(q).truth_value = Sub(ops[i]).truth_value
                    /\ Sees(to_object(Sub(ops[i])))

C15_Witness ==
    /\ Evaluated
    /\ q = TwoSidedOperation("ADD", int(1), Nots(DocElementQuery(<<"a">>), 1))
    /\ ~Resolves(meta, <<"a">>)
    /\ Sees(NEGATED_MISSING)

\* C16: MATCHES on a target whose value is no string is False and raises no
\* TypeError, while a missing target still propagates; the TypeError of any
\* other node (BINNOT of None, for one) reaches the caller of evaluate_query
\* as a TypeError, also through a NOT above it.
C16_TypeErrors ==
    Evaluated =>
        /\ IsFn(q, "MATCHES") =>
               LET t == Sub(q.args[1])
               IN  /\ result.exc # "TypeError"
                   /\ (IsValue(t) /\ t.res.t # "str") => Sees(False)
                   /\ IsMissingErr(t) => Seen(result) = TopOf(t)
        /\ (IsFn(q, "BINNOT") /\ IsValue(Sub(q.args[1]))
                /\ ~IsInt(Sub(q.args[1]).res)) => result.exc = "TypeError"
        /\ Sub(q).exc = "TypeError" => result.exc = "TypeError"
        /\ (IsOp(q, "OneSidedOperation", "NOT")
                /\ Sub(q.target).exc = "TypeError") => result.exc = "TypeError"

C16_Witness ==
    /\ Evaluated
    /\ q = matches(DocElementQuery(<<"a">>), str("hel"), int(0)).res
    /\ Resolves(meta, <<"a">>)
    /\ meta.items["a"] = None
    /\ Sees(False)

C16_WitnessBinNot ==
    /\ Evaluated
    /\ q = binnot(DocElementQuery(<<"a">>)).res
    /\ Resolves(meta, <<"a">>)
    /\ meta.items["a"] = None
    /\ result.exc = "TypeError"

\* C17: bool(q), `q and x`, a chained comparison with q in it, hash(q), and ^
\* with q on the left or on the right all raise InvalidQueryUsageError for a
\* query q, and give the caller no object.
C17_ForbiddenUses ==
    last_call \in {"bool", "hash", "and", "chained", "xor", "rxor"} =>
        /\ result.exc = "InvalidQueryUsageError"
        /\ result.res = None

C17_Witness ==
    /\ last_call = "rxor"
    /\ IsOp(q, "TwoSidedOperation", "LT")
    /\ result.exc = "InvalidQueryUsageError"

\* some operand of a function node is a query; the items of a list handed to
\* ANY or ALL count as operands
HasQueryOperand(x) ==
    \E i \in 1..Len(x.args) :
        \/ IsQuery(x.args[i])
        \/ /\ x.args[i].t = "tuple"
           /\ \E j \in 1..Len(x.args[i].elts) : IsQuery(x.args[i].elts[j])
IsFunctionQuery(x) == IsQuery(x) /\ x.type = "FunctionQuery"
LibraryCalls ==
    {"exists", "is_none", "binnot", "binand", "binor", "binxor", "matches",
     "is_in", "any", "all"}

\* C18 as stated: a function of the library builds a node only when at least
\* one operand is a query and raises otherwise; exists only builds a node on
\* an accessor.
C18_ConstructorsNeedQuery ==
    /\ IsFunctionQuery(q) => HasQueryOperand(q)
    /\ IsFn(q, "EXISTS") => IsDocElementQuery(q.args[1])
    /\ last_call \in LibraryCalls => result.exc = "TypeError"

\* C18 amended: is_none, binnot and matches build a node only on a query
\* target, binand, binor, binxor and is_in only when one of their two
\* operands is a query, exists only on an accessor, and each raises TypeError
\* otherwise; any and all build a node on a query and on any iterable, a
\* list of raw objects or an empty list included, and raise TypeError on
\* every other target.
C18_ConstructorsValidate ==
    /\ (IsFunctionQuery(q) /\ q.function \notin {"ANY", "ALL"}) =>
           HasQueryOperand(q)
    /\ (IsFunctionQuery(q)
            /\ q.function \in {"IS_NONE", "BINNOT", "MATCHES"}) =>
           IsQuery(q.args[1])
    /\ IsFn(q, "EXISTS") => IsDocElementQuery(q.args[1])
    /\ (IsFn(q, "ANY") \/ IsFn(q, "ALL")) =>
           IsQuery(q.args[1]) \/ q.args[1].t \in {"tuple", "str", "dict"}
    /\ last_call \in LibraryCalls => result.exc = "TypeError"
    /\ last_call \in LibraryCalls \ {"exists", "matches"} => ~IsQuery(q)
    /\ last_call = "exists" => ~IsDocElementQuery(q)

C18_Witness ==
    /\ last_call = "is_in"
    /\ q = int(1)
    /\ result.exc = "TypeError"

C18_WitnessRawList ==
    /\ last_call = "build"
    /\ q = ql_any(tuple(<<True, False>>)).res
    /\ ~HasQueryOperand(q)

\* the raw objects among the two operands of a two-sided operation
RawOperands(x) ==
    IF IsQuery(x) /\ x.type = "TwoSidedOperation"
    THEN {o \in {x.left_hand_side, x.right_hand_side} : ~IsQuery(o)}
    ELSE {}

\* C19: compile_query on a raw object raises TypeError and gives no
\* evaluator, and so does evaluate_query before anything is evaluated; the
\* same object as an operand compiles to an evaluator that returns it
\* unchanged whatever the document, and the operator above it sees that
\* value.
C19_RawObjects ==
    /\ (last_call = "compile_query" /\ ~IsQuery(q)) =>
           /\ result.exc = "TypeError"
           /\ compiled = NoEvaluator
    /\ (last_call = "compile_query" /\ IsQuery(q)) =>
           /\ result.exc = "none"
           /\ compiled.f = Evaluator(q)
    /\ (Evaluated /\ ~IsQuery(q)) =>
           /\ result.exc = "TypeError"
           /\ result.calls = <<>>
    /\ last_call \in {"evaluate_query", "invoke"} =>
           /\ \A x \in RawOperands(q) : \A d \in Docs :
                  Sans(_compile(x, FALSE, FALSE, d, <<>>)) = Returned(x, <<>>)
           /\ (IsOp(q, "TwoSidedOperation", "OR")
                   /\ q.left_hand_side \in RawOperands(q)
                   /\ Truthy(q.left_hand_side)) => Sees(q.left_hand_side)
           /\ (IsOp(q, "TwoSidedOperation", "AND")
                   /\ q.left_hand_side \in RawOperands(q)
                   /\ ~Truthy(q.left_hand_side)) => Sees(q.left_hand_side)

C19_Witness ==
    /\ last_call = "compile_query"
    /\ q = int(1)
    /\ result.exc = "TypeError"

C19_WitnessOperand ==
    /\ last_call = "invoke"
    /\ q = TwoSidedOperation("OR", True, DocElementQuery(<<"a">>))
    /\ ~Resolves(meta, <<"a">>)
    /\ Sees(True)

C21_SentinelOrdering ==
    /\ last_call = "object_lt" =>
           /\ result = object_gt(arg.y, arg.x)
           /\ (IsSentinel(arg.x) \/ IsSentinel(arg.y)) =>
                  result.res = bool(\/ arg.x = MISSING /\ arg.y # MISSING
                                    \/ arg.x = NEGATED_MISSING
                                           /\ ~IsSentinel(arg.y))
    /\ last_call = "object_gt" =>
           /\ result = object_lt(arg.y, arg.x)
           /\ (IsSentinel(arg.x) \/ IsSentinel(arg.y)) =>
                  result.res = bool(\/ arg.y = MISSING /\ arg.x # MISSING
                                    \/ arg.y = NEGATED_MISSING
                                           /\ ~IsSentinel(arg.x))
    /\ (last_call = "object_bool" /\ IsSentinel(arg.x)) =>
           result.res = bool(arg.x = NEGATED_MISSING)

C21_Witness ==
    /\ last_call = "object_gt"
    /\ arg = Objects(NEGATED_MISSING, MISSING)
    /\ result.res = True

C21_WitnessValue ==
    /\ last_call = "object_lt"
    /\ arg = Objects(NEGATED_MISSING, None)
    /\ result.res = True

\* C22: is_same_query returns True for two queries of the same shape, with
\* the same path, the same operators and equal constants, whatever the kind
\* of node (accessor, one-sided, two-sided, function), and returns False or
\* True, never an error, for any two queries.
C22_IsSameQueryDecides ==
    last_call = "is_same_query" =>
        /\ result.exc = "none"
        /\ arg.x = arg.y => result.res = True

\* the step built a child of an accessor the caller holds
ChildBuilt ==
    /\ last_call' = "build"
    /\ IsDocElementQuery(q)
    /\ IsDocElementQuery(q')

\* C23: when a child is built from an accessor, every accessor held before
\* (the parent, its own parents and the children built earlier) keeps its
\* segments, the child is one more object, and it holds the segments of one
\* of them followed by exactly one new segment.
C23_ChildLeavesParent ==
    [][ChildBuilt =>
           /\ Len(accessors') = Len(accessors) + 1
           /\ \A i \in 1..Len(accessors) : accessors'[i] = accessors[i]
           /\ q' = accessors'[Len(accessors')]
           /\ \E p \in 1..Len(accessors), item \in Keys :
                  q'._path = accessors[p]._path \o <<item>>
      ]_vars

\* two children of the root, built one after the other, next to it
C23_Witness ==
    /\ last_call = "build"
    /\ accessors = <<DocElementQuery(<<>>), DocElementQuery(<<"a">>),
                     DocElementQuery(<<"b">>)>>
    /\ q = DocElementQuery(<<"b">>)

\* the two operands of a strict two-sided operator or of BINAND, BINOR,
\* BINXOR; <<>> for every other node
LeftRight(x) ==
    IF IsQuery(x) /\ x.type = "TwoSidedOperation"
          /\ x.operator \in StrictOperators
    THEN <<x.left_hand_side, x.right_hand_side>>
    ELSE IF IsFunctionQuery(x) /\ x.function \in {"BINAND", "BINOR", "BINXOR"}
    THEN <<x.args[1], x.args[2]>>
    ELSE <<>>

\* C24: a comparison, arithmetic or shift operator and BINAND, BINOR, BINXOR
\* call the left operand once and first; when it raises, the right operand
\* is never called and the error of the left one, with its truth value, is
\* what comes out (so the left side decides between MISSING and
\* NEGATED_MISSING when both are missing); otherwise the right operand is
\* called once, after the left one has returned.
C24_LeftBeforeRight ==
    (Evaluated /\ LeftRight(q) # <<>>) =>
        LET l == Sub(LeftRight(q)[1])
        IN  /\ Cardinality(CallsOf(<<1>>)) = 1
            /\ Cardinality(RetsOf(<<1>>)) = 1
            /\ ~IsValue(l) =>
                   /\ CallsOf(<<2>>) = {}
                   /\ Seen(result) = TopOf(l)
                   /\ Seen(Sub(q)) = Seen(l)
                   /\ IsMissingErr(l) => Sub(q).truth_value = l.truth_value
            /\ IsValue(l) =>
                   /\ Cardinality(CallsOf(<<2>>)) = 1
                   /\ \A i \in CallsOf(<<2>>) : \A j \in RetsOf(<<1>>) : j < i

\* both sides missing, the left one under a NOT
C24_Witness ==
    /\ Evaluated
    /\ q = TwoSidedOperation("LT", Nots(DocElementQuery(<<"a">>), 1),
                             DocElementQuery(<<"b">>))
    /\ ~Resolves(meta, <<"a">>)
    /\ ~Resolves(meta, <<"b">>)
    /\ CallsOf(<<2>>) = {}
    /\ Sees(NEGATED_MISSING)

\* both sides missing, the right one under a NOT
C24_WitnessBinAnd ==
    /\ Evaluated
    /\ q = binand(DocElementQuery(<<"b">>),
                  Nots(DocElementQuery(<<"a">>), 1)).res
    /\ ~Resolves(meta, <<"a">>)
    /\ ~Resolves(meta, <<"b">>)
    /\ CallsOf(<<2>>) = {}
    /\ Sees(MISSING)

\* the items of the list handed to ANY or ALL
ItemsOf(x) == x.args[1].elts
\* the position of the item the loop of the list form stops at: the first
\* truthy or negated-missing item for ANY, the first falsy or missing item
\* for ALL, the final item when there is none
StopsAt(x) ==
    LET stops(o) == IF x.function = "ANY"
                    THEN IsTruthy(o) \/ IsMissing(o, TRUE)
                    ELSE IsFalsy(o) \/ IsMissing(o, FALSE)
        S == {i \in 1..Len(ItemsOf(x)) : stops(Sub(ItemsOf(x)[i]))}
    IN  IF S = {} THEN Len(ItemsOf(x))
        ELSE CHOOSE i \in S : \A j \in S : i <= j

\* C25: list-form ANY and ALL call their items from left to right, each
\* once and after the one before it has returned or raised, up to the first
\* item that settles the result (truthy or negated missing for ANY, falsy
\* or missing for ALL), and call no item after it.
C25_ListFormsLazy ==
    (Evaluated /\ (IsListFn(q, "ANY") \/ IsListFn(q, "ALL"))
        /\ Len(ItemsOf(q)) > 0) =>
        \A i \in 1..Len(ItemsOf(q)) :
            /\ i <= StopsAt(q) =>
                   /\ Cardinality(CallsOf(<<i>>)) = 1
                   /\ Cardinality(RetsOf(<<i>>)) = 1
                   /\ i > 1 => \A c \in CallsOf(<<i>>) :
                                   \A r \in RetsOf(<<i - 1>>) : r < c
            /\ i > StopsAt(q) => CallsOf(<<i>>) = {}

C25_Witness ==
    /\ Evaluated
    /\ q = ql_any(tuple(<<False, Nots(DocElementQuery(<<"a">>), 1),
                          DocElementQuery(<<"a">>)>>)).res
    /\ ~Resolves(meta, <<"a">>)
    /\ Cardinality(CallsOf(<<2>>)) = 1
    /\ CallsOf(<<3>>) = {}
    /\ Sees(True)

C25_WitnessAll ==
    /\ Evaluated
    /\ q = ql_all(tuple(<<True, DocElementQuery(<<"a">>), False>>)).res
    /\ ~Resolves(meta, <<"a">>)
    /\ Cardinality(CallsOf(<<2>>)) = 1
    /\ CallsOf(<<3>>) = {}
    /\ Sees(MISSING)

\* an operand as C26 words it: in parentheses iff it is a one-sided or a
\* two-sided operation, bare when it is an accessor or a function call, and
\* its literal representation when it is a raw object
IsOperation(o) ==
    IsQuery(o) /\ o.type \in {"OneSidedOperation", "TwoSidedOperation"}
Operand(o) ==
    IF IsOperation(o) THEN "(" \o py_str(o) \o ")"
    ELSE IF IsQuery(o) THEN py_str(o)
    ELSE py_repr(o)
RECURSIVE Dotted(_)
Dotted(path) == IF path = <<>> THEN "" ELSE "." \o Head(path) \o Dotted(Tail(path))

\* C26: str() of an accessor is <metadata_root> followed by .segment for
\* each segment; str() of a two-sided operation is its left operand, a
\* space, the symbol of the operator, a space, its right operand, where an
\* operand is in parentheses iff it is itself a one-sided or two-sided
\* operation, an accessor or function call is bare and a raw object shows
\* as its literal.
C26_Rendering ==
    last_call = "str" =>
        /\ result.exc = "none"
        /\ IsDocElementQuery(arg.x) =>
               result.res.s = "<metadata_root>" \o Dotted(arg.x._path)
        /\ (IsQuery(arg.x) /\ arg.x.type = "TwoSidedOperation") =>
               result.res.s = Operand(arg.x.left_hand_side) \o " "
                   \o TwoSidedOperatorValue(arg.x.operator) \o " "
                   \o Operand(arg.x.right_hand_side)
        /\ arg.x = TwoSidedOperation("AND", DocElementQuery(<<"a">>),
                       OneSidedOperation("NEG", DocElementQuery(<<"a">>))) =>
               result.res.s = "<metadata_root>.a and (- <metadata_root>.a)"
        /\ arg.x = TwoSidedOperation("EQ", str("hello"),
                       FunctionQuery("EXISTS", <<DocElementQuery(<<"b">>)>>)) =>
               result.res.s = "'hello' == EXISTS(<metadata_root>.b)"

\* a comparison under & next to another comparison: both in parentheses
C26_Witness ==
    /\ last_call = "str"
    /\ arg.x = TwoSidedOperation("AND",
                   TwoSidedOperation("LT", DocElementQuery(<<"a">>), int(1)),
                   TwoSidedOperation("GT", DocElementQuery(<<"a">>), int(1)))
    /\ result.res.s = "(<metadata_root>.a < 1) and (<metadata_root>.a > 1)"

\* the classical boolean of an operand: truthy values and missing with truth
\* value True are true, falsy values and missing with truth value False are
\* false
Classical(o) == IsTruthy(o) \/ IsMissing(o, TRUE)
\* the classical boolean of what evaluate_query returned
ClassicalResult(r) == r.exc = "none" /\ Truthy(r.res)

\* the operands of a NOT, AND, OR, list-form ANY or ALL node; <<>> otherwise
LogicalOperands(x) ==
    IF IsOp(x, "OneSidedOperation", "NOT") THEN <<x.target>>
    ELSE IF IsOp(x, "TwoSidedOperation", "AND")
            \/ IsOp(x, "TwoSidedOperation", "OR")
    THEN <<x.left_hand_side, x.right_hand_side>>
    ELSE IF IsListFn(x, "ANY") \/ IsListFn(x, "ALL") THEN ItemsOf(x)
    ELSE <<>>
\* every operand is a value or is missing: none fails in another way
OperandsDefined(x) ==
    \A i \in 1..Len(LogicalOperands(x)) :
        IsValue(Sub(LogicalOperands(x)[i]))
            \/ IsMissingErr(Sub(LogicalOperands(x)[i]))
\* the same node with its first two operands swapped
Swapped(x) ==
    TwoSidedOperation(x.operator, x.right_hand_side, x.left_hand_side)
\* the two items of a list joined by | or &
Joined(op, x) == TwoSidedOperation(op, ItemsOf(x)[1], ItemsOf(x)[2])

\* C27: the classical boolean of the result of NOT, AND, OR, list-form ANY
\* and list-form ALL (non-empty) is the classical not, and, or, exists and
\* for-all of the classical booleans of the operands, when these are values
\* or missing; so AND and OR give the same boolean with their operands
\* swapped, ANY of two items the boolean of |, and ALL of two items the
\* boolean of &.
C27_TruthHomomorphism ==
    (Evaluated /\ LogicalOperands(q) # <<>> /\ OperandsDefined(q)) =>
        LET c == [i \in 1..Len(LogicalOperands(q)) |->
                     Classical(Sub(LogicalOperands(q)[i]))]
        IN  /\ result.exc = "none"
            /\ IsOp(q, "OneSidedOperation", "NOT") =>
                   ClassicalResult(result) = ~c[1]
            /\ IsOp(q, "TwoSidedOperation", "AND") =>
                   /\ ClassicalResult(result) = (c[1] /\ c[2])
                   /\ ClassicalResult(result) =
                          ClassicalResult(evaluate_query(Swapped(q), meta))
            /\ IsOp(q, "TwoSidedOperation", "OR") =>
                   /\ ClassicalResult(result) = (c[1] \/ c[2])
                   /\ ClassicalResult(result) =
                          ClassicalResult(evaluate_query(Swapped(q), meta))
            /\ IsListFn(q, "ANY") =>
                   /\ ClassicalResult(result) = (\E i \in DOMAIN c : c[i])
                   /\ Len(c) = 2 =>
                          ClassicalResult(result) =
                              ClassicalResult(
                                  evaluate_query(Joined("OR", q), meta))
            /\ IsListFn(q, "ALL") =>
                   /\ ClassicalResult(result) = (\A i \in DOMAIN c : c[i])
                   /\ Len(c) = 2 =>
                          ClassicalResult(result) =
                              ClassicalResult(
                                  evaluate_query(Joined("AND", q), meta))

\* ALL of a real True and a missing item is MISSING, like True & missing
C27_Witness ==
    /\ Evaluated
    /\ q = ql_all(tuple(<<True, DocElementQuery(<<"a">>)>>)).res
    /\ ~Resolves(meta, <<"a">>)
    /\ Sees(MISSING)
    /\ ~ClassicalResult(result)

\* | with a negated missing on the right and a missing on the left
C27_WitnessOr ==
    /\ Evaluated
    /\ q = TwoSidedOperation("OR", DocElementQuery(<<"b">>),
                             Nots(DocElementQuery(<<"a">>), 1))
    /\ ~Resolves(meta, <<"a">>)
    /\ ~Resolves(meta, <<"b">>)
    /\ ClassicalResult(result)

\* ~x
Not(x) == OneSidedOperation("NOT", x)
\* q is ~(l op r)
IsNotOf(x, op) ==
    IsOp(x, "OneSidedOperation", "NOT") /\ IsOp(x.target, "TwoSidedOperation", op)

\* C28: ~(a & b) evaluates to what (~a) | (~b) evaluates to, and ~(a | b) to
\* what (~a) & (~b) evaluates to: the same value, or the same one of
\* MISSING and NEGATED_MISSING.
C28_DeMorgan ==
    /\ (Evaluated /\ IsNotOf(q, "AND")) =>
           Seen(result) =
               Seen(evaluate_query(
                   TwoSidedOperation("OR", Not(q.target.left_hand_side),
                                     Not(q.target.right_hand_side)), meta))
    /\ (Evaluated /\ IsNotOf(q, "OR")) =>
           Seen(result) =
               Seen(evaluate_query(
                   TwoSidedOperation("AND", Not(q.target.left_hand_side),
                                     Not(q.target.right_hand_side)), meta))

\* ~(~a & ~b) with a and b missing: MISSING on both sides
C28_Witness ==
    /\ Evaluated
    /\ q = Not(TwoSidedOperation("AND", Nots(DocElementQuery(<<"a">>), 1),
                                 Nots(DocElementQuery(<<"b">>), 1)))
    /\ ~Resolves(meta, <<"a">>)
    /\ ~Resolves(meta, <<"b">>)
    /\ Sees(MISSING)

\* ~(a | True) with a missing: False on both sides
C28_WitnessOr ==
    /\ Evaluated
    /\ q = Not(TwoSidedOperation("OR", DocElementQuery(<<"a">>), True))
    /\ ~Resolves(meta, <<"a">>)
    /\ Sees(False)

\* the list of items, each under one more ~
NotEach(items) == tuple([i \in 1..Len(items) |-> Not(items[i])])
\* q is ~ of the list form of a function, the list not empty
IsNotOfList(x, fn) ==
    /\ IsOp(x, "OneSidedOperation", "NOT")
    /\ IsListFn(x.target, fn)
    /\ Len(ItemsOf(x.target)) > 0

\* C29: ~ql.any(items) evaluates to what ql.all of the negated items
\* evaluates to, and ~ql.all(items) to what ql.any of the negated items
\* evaluates to: the same boolean, or the same one of MISSING and
\* NEGATED_MISSING.
C29_AnyAllDual ==
    /\ (Evaluated /\ IsNotOfList(q, "ANY")) =>
           Seen(result) =
               Seen(evaluate_query(
                   FunctionQuery("ALL", <<NotEach(ItemsOf(q.target))>>), meta))
    /\ (Evaluated /\ IsNotOfList(q, "ALL")) =>
           Seen(result) =
               Seen(evaluate_query(
                   FunctionQuery("ANY", <<NotEach(ItemsOf(q.target))>>), meta))

\* C30: IS_IN calls the evaluator of the item once and first; when the item
\* raises, the container is never evaluated and the error of the item, with
\* its truth value, comes out (so the item decides between MISSING and
\* NEGATED_MISSING when both are missing); when only the container is
\* missing, its error comes out unchanged, after the item was evaluated.
C30_ItemBeforeContainer ==
    (Evaluated /\ IsFn(q, "IS_IN")) =>
        LET item == Sub(q.args[1])
            container == Sub(q.args[2])
        IN  /\ Cardinality(CallsOf(<<1>>)) = 1
            /\ Cardinality(RetsOf(<<1>>)) = 1
            /\ ~IsValue(item) =>
                   /\ CallsOf(<<2>>) = {}
                   /\ Seen(Sub(q)) = Seen(item)
                   /\ IsMissingErr(item) =>
                          /\ Sub(q).truth_value = item.truth_value
                          /\ Sub(q).missingpath = item.missingpath
                          /\ Sees(to_object(item))
            /\ IsValue(item) =>
                   /\ Cardinality(CallsOf(<<2>>)) = 1
                   /\ \A i \in CallsOf(<<2>>) : \A j \in RetsOf(<<1>>) : j < i
                   /\ IsMissingErr(container) =>
                          /\ Sub(q).truth_value = container.truth_value
                          /\ Sub(q).missingpath = container.missingpath
                          /\ Sees(to_object(container))

\* item and container both missing, the container under a NOT
C30_Witness ==
    /\ Evaluated
    /\ q = is_in(DocElementQuery(<<"b">>),
                 Nots(DocElementQuery(<<"a">>), 1)).res
    /\ ~Resolves(meta, <<"a">>)
    /\ ~Resolves(meta, <<"b">>)
    /\ CallsOf(<<2>>) = {}
    /\ Sees(MISSING)

\* only the container is missing
C30_WitnessContainer ==
    /\ Evaluated
    /\ q = is_in(int(1), Nots(DocElementQuery(<<"a">>), 1)).res
    /\ ~Resolves(meta, <<"a">>)
    /\ Cardinality(CallsOf(<<2>>)) = 1
    /\ Sees(NEGATED_MISSING)

====
